---- MODULE Spec2Model ----
(***************************************************************************)
(* finrecorder: the trade ledger and the holdings derived from it.         *)
(*                                                                         *)
(* The state is the two tables the trade routes write: transactions and    *)
(* holdings.  Money is kept the way the columns keep it (src/db/schema.ts):*)
(*   price, averageCost      numeric(12,4)  -> an integer count of 0.0001  *)
(*                                             ("ticks")                   *)
(*   brokerFee, tax,                                                       *)
(*   totalAmount, totalCost  numeric(_,2)   -> an integer count of 0.01    *)
(*                                             ("cents")                   *)
(* The routes compute in JavaScript numbers and hand the column a decimal  *)
(* string; the column rounds it to its scale.  A JavaScript number is      *)
(* modelled by the exact rational it approximates, in ticks (a record      *)
(* [n, d] for n/d), and the store of a number by the rounding of the       *)
(* column (half away from zero).                                           *)
(***************************************************************************)
EXTENDS Integers, Sequences, FiniteSets, TLC

VARIABLES
    transactions,   \* table transactions: id -> row
    holdings,       \* table holdings: <<userId, stockId>> -> row (unique pair)
    nextId,         \* number of trade rows inserted so far (id and createdAt order)
    response,       \* the answer of the last request
    hist,           \* history of the last requests, read by the properties only
    dailyNetValues, \* table daily_net_values: a set of rows
    env,            \* what lies outside the trade tables: the day, closes and rates; taskLogs
    inflight        \* requests and jobs between two of their store calls

vars == <<transactions, holdings, nextId, response, hist, dailyNetValues, env,
          inflight>>

----------------------------------------------------------------------------
(* Numbers *)

\* scale of price / averageCost: 4 fractional digits
PriceScale == 10000
\* scale of totalAmount / totalCost / brokerFee / tax: 2 fractional digits
CentScale == 100
TicksPerCent == PriceScale \div CentScale

Abs(x) == IF x < 0 THEN -x ELSE x

RECURSIVE GCD(_, _)
GCD(a, b) == IF b = 0 THEN a ELSE GCD(b, a % b)

\* the rational n/d, in lowest terms with d > 0
Rat(n, d) ==
    LET g == GCD(Abs(n), Abs(d))
        s == IF d < 0 THEN -1 ELSE 1
    IN  [n |-> s * (n \div g), d |-> s * (d \div g)]

RatInt(k) == [n |-> k, d |-> 1]
RatAdd(a, b) == Rat(a.n * b.d + b.n * a.d, a.d * b.d)
RatSub(a, b) == Rat(a.n * b.d - b.n * a.d, a.d * b.d)
RatMulInt(a, k) == Rat(a.n * k, a.d)
RatDivInt(a, k) == Rat(a.n, a.d * k)
RatNeg(a) == a.n < 0
RatPos(a) == a.n > 0

\* n/d rounded to an integer, ties away from zero (numeric rounding), d > 0
RoundHalfAway(n, d) ==
    IF n >= 0 THEN (2 * n + d) \div (2 * d)
    ELSE -((2 * (-n) + d) \div (2 * d))

\* a number (ticks) written to a scale-4 column: ticks
ToScale4(a) == RoundHalfAway(a.n, a.d)
\* a number (ticks) written to a scale-2 column: cents
ToScale2(a) == RoundHalfAway(a.n, a.d * TicksPerCent)
\* parseFloat of a scale-2 column (cents), as a number in ticks
FromScale2(c) == RatInt(c * TicksPerCent)
\* parseFloat of a scale-4 column (ticks)
FromScale4(t) == RatInt(t)
\* Math.max(0, a)
RatMax0(a) == IF RatNeg(a) THEN RatInt(0) ELSE a

----------------------------------------------------------------------------
(* Optional values: << >> is "no value" (undefined, no row), <<v>> is v *)

None == << >>
Some(v) == <<v>>

\* rows of a table
Find(table, key) == IF key \in DOMAIN table THEN Some(table[key]) ELSE None
Insert(table, key, row) ==
    [k \in DOMAIN table \cup {key} |-> IF k = key THEN row ELSE table[k]]
Remove(table, key) == [k \in DOMAIN table \ {key} |-> table[k]]
EmptyTable == [k \in {} |-> 0]

----------------------------------------------------------------------------
(* The three helpers that move a holding row.  `hs` is the holdings table, *)
(* `price` a JavaScript number in ticks, `quantity` an integer, `h` the    *)
(* row found for (userId, stockId).  A branch that deletes the row yields  *)
(* None, one that writes it yields Some(row).                              *)

HoldingKey(userId, stockId) == <<userId, stockId>>

\* the table with the row of `key` written (Some) or deleted (None)
Written(hs, key, row) == IF row = None THEN Remove(hs, key) ELSE Insert(hs, key, row[1])

\* updateHoldings, BUY on an existing row
updateHoldingsBuy(h, quantity, price) ==
    LET newQuantity == h.quantity + quantity
        newTotalCost == RatAdd(FromScale2(h.totalCost), RatMulInt(price, quantity))
        newAverageCost == RatDivInt(newTotalCost, newQuantity)
    IN  Some([h EXCEPT !.quantity = newQuantity,
                       !.averageCost = ToScale4(newAverageCost),
                       !.totalCost = ToScale2(newTotalCost)])

\* updateHoldings, BUY with no row
updateHoldingsInsert(quantity, price, currency) ==
    Some([quantity |-> quantity,
          averageCost |-> ToScale4(price),
          totalCost |-> ToScale2(RatMulInt(price, quantity)),
          currency |-> currency])

\* a SELL that leaves the row at quantity 0 instead of deleting it
updateHoldingsSellKeepsRow(h, quantity) ==
    LET newQuantity == h.quantity - quantity
    IN  IF newQuantity < 0
        THEN None
        ELSE LET newTotalCost == RatMulInt(FromScale4(h.averageCost), newQuantity)
             IN  Some([h EXCEPT !.quantity = newQuantity,
                                !.totalCost = ToScale2(newTotalCost)])

\* a SELL that takes the shares off and leaves totalCost as it was
updateHoldingsSellKeepsCost(h, quantity) ==
    LET newQuantity == h.quantity - quantity
    IN  IF newQuantity <= 0
        THEN None
        ELSE Some([h EXCEPT !.quantity = newQuantity])

\* updateHoldings, SELL on an existing row
updateHoldingsSell(h, quantity) ==
    LET newQuantity == h.quantity - quantity
    IN  IF newQuantity <= 0
        THEN None
        ELSE LET newTotalCost == RatMulInt(FromScale4(h.averageCost), newQuantity)
             IN  Some([h EXCEPT !.quantity = newQuantity,
                                !.totalCost = ToScale2(newTotalCost)])

\* POST /api/transactions: the effect of a new trade on the holding
updateHoldings(hs, userId, stockId, type, quantity, price, currency) ==
    LET key == HoldingKey(userId, stockId)
        existingHolding == Find(hs, key)
    IN  IF type = "BUY"
        THEN IF existingHolding # None
             THEN Written(hs, key, updateHoldingsBuy(existingHolding[1], quantity, price))
             ELSE Written(hs, key, updateHoldingsInsert(quantity, price, currency))
        ELSE IF existingHolding # None
             THEN Written(hs, key, updateHoldingsSell(existingHolding[1], quantity))
             ELSE hs

\* reverseHoldingEffect, a BUY taken back from an existing row
reverseHoldingBuy(h, quantity, price) ==
    LET newQuantity == h.quantity - quantity
    IN  IF newQuantity <= 0
        THEN None
        ELSE LET newTotalCost ==
                     RatSub(FromScale2(h.totalCost), RatMulInt(price, quantity))
                 newAverageCost == RatDivInt(newTotalCost, newQuantity)
             IN  Some([h EXCEPT !.quantity = newQuantity,
                                !.averageCost = ToScale4(RatMax0(newAverageCost)),
                                !.totalCost = ToScale2(RatMax0(newTotalCost))])

\* reverseHoldingEffect, a SELL taken back into an existing row
reverseHoldingSell(h, quantity, price) ==
    LET newQuantity == h.quantity + quantity
        newTotalCost == RatAdd(FromScale2(h.totalCost), RatMulInt(price, quantity))
    IN  Some([h EXCEPT !.quantity = newQuantity,
                       !.totalCost = ToScale2(newTotalCost)])

\* reverseHoldingEffect, a SELL taken back with no row
reverseHoldingInsert(quantity, price, currency) ==
    Some([quantity |-> quantity,
          averageCost |-> ToScale4(price),
          totalCost |-> ToScale2(RatMulInt(price, quantity)),
          currency |-> currency])

\* PUT / DELETE /api/transactions/[id]: take a stored trade's effect back
reverseHoldingEffect(hs, userId, stockId, type, quantity, price, currency) ==
    LET key == HoldingKey(userId, stockId)
        existingHolding == Find(hs, key)
    IN  IF type = "BUY"
        THEN IF existingHolding # None
             THEN Written(hs, key, reverseHoldingBuy(existingHolding[1], quantity, price))
             ELSE hs
        ELSE IF existingHolding # None
             THEN Written(hs, key, reverseHoldingSell(existingHolding[1], quantity, price))
             ELSE Written(hs, key, reverseHoldingInsert(quantity, price, currency))

\* applyHoldingEffect, BUY on an existing row
applyHoldingBuy(h, quantity, price) ==
    LET newQuantity == h.quantity + quantity
        newTotalCost == RatAdd(FromScale2(h.totalCost), RatMulInt(price, quantity))
        newAverageCost == RatDivInt(newTotalCost, newQuantity)
    IN  Some([h EXCEPT !.quantity = newQuantity,
                       !.averageCost = ToScale4(newAverageCost),
                       !.totalCost = ToScale2(newTotalCost)])

\* applyHoldingEffect, BUY with no row
applyHoldingInsert(quantity, price, currency) ==
    Some([quantity |-> quantity,
          averageCost |-> ToScale4(price),
          totalCost |-> ToScale2(RatMulInt(price, quantity)),
          currency |-> currency])

\* a SELL that costs the shares left at the average of the total over them
applyHoldingSellSpreadsCost(h, quantity) ==
    LET newQuantity == h.quantity - quantity
    IN  IF newQuantity <= 0
        THEN None
        ELSE Some([h EXCEPT !.quantity = newQuantity,
                            !.averageCost =
                                ToScale4(Rat(h.totalCost * TicksPerCent, newQuantity))])

\* applyHoldingEffect, SELL on an existing row
applyHoldingSell(h, quantity) ==
    LET newQuantity == h.quantity - quantity
    IN  IF newQuantity <= 0
        THEN None
        ELSE LET newTotalCost == RatMulInt(FromScale4(h.averageCost), newQuantity)
             IN  Some([h EXCEPT !.quantity = newQuantity,
                                !.totalCost = ToScale2(newTotalCost)])

\* PUT /api/transactions/[id]: the effect of the edited trade on the holding
applyHoldingEffect(hs, userId, stockId, type, quantity, price, currency) ==
    LET key == HoldingKey(userId, stockId)
        existingHolding == Find(hs, key)
    IN  IF type = "BUY"
        THEN IF existingHolding # None
             THEN Written(hs, key, applyHoldingBuy(existingHolding[1], quantity, price))
             ELSE Written(hs, key, applyHoldingInsert(quantity, price, currency))
        ELSE IF existingHolding # None
             THEN Written(hs, key, applyHoldingSell(existingHolding[1], quantity))
             ELSE hs

----------------------------------------------------------------------------
(* Instruments.  A stock row is found or created by (symbol, market); the  *)
(* model names a stock by that pair and keeps the stocks table implicit.   *)

StockIds == {"TW:2330", "US:AAPL"}
Market(stockId) == IF stockId = "TW:2330" THEN "TW" ELSE "US"
CurrencyOf(market) == IF market = "TW" THEN "TWD" ELSE "USD"

----------------------------------------------------------------------------
(* Fees.  Amounts are integers in ticks here: quantity is an integer and   *)
(* a price has at most 4 fractional digits.                                *)

\* 0.001425 = 57 / 40000, the Taiwan broker fee rate
BrokerFeeRateNum == 57
BrokerFeeRateDen == 40000
\* the minimum Taiwan broker fee, in currency units
MinBrokerFee == 20
\* 0.003 = 3 / 1000, the Taiwan tax rate on a sell
SellTaxRateNum == 3
SellTaxRateDen == 1000

Max(a, b) == IF a >= b THEN a ELSE b

\* Math.round((g / PriceScale) * num / den) for an amount g in ticks, in
\* currency units: floor(x + 1/2), computed on the cents and the rest of g
\* apart so as to stay in range
MathRoundRate(g, num, den) ==
    LET gc == g \div TicksPerCent
        r  == g % TicksPerCent
    IN  (2 * gc * num + ((2 * r * num) \div TicksPerCent) + CentScale * den)
            \div (2 * CentScale * den)

\* !x for an optional number: absent or 0
Falsy(opt) == opt = None \/ opt[1] = 0
\* x ?? d
OrElse(opt, d) == IF opt = None THEN d ELSE opt[1]

\* POST: brokerFee, tax and totalAmount (ticks) of the new trade;
\* data.brokerFee and data.tax are optional amounts in cents
postAmounts(data) ==
    LET grossAmount == data.quantity * data.price
        market == Market(data.stock)
        brokerFee ==
            IF market = "TW" /\ Falsy(data.brokerFee)
            THEN Max(MathRoundRate(grossAmount, BrokerFeeRateNum, BrokerFeeRateDen),
                     MinBrokerFee) * PriceScale
            ELSE OrElse(data.brokerFee, 0) * TicksPerCent
        tax ==
            IF market = "TW" /\ data.type = "SELL" /\ Falsy(data.tax)
            THEN MathRoundRate(grossAmount, SellTaxRateNum, SellTaxRateDen) * PriceScale
            ELSE OrElse(data.tax, 0) * TicksPerCent
        totalAmount ==
            IF data.type = "BUY"
            THEN grossAmount + brokerFee + tax
            ELSE grossAmount - brokerFee - tax
    IN  [brokerFee |-> brokerFee, tax |-> tax, totalAmount |-> totalAmount]

\* PUT: the same computation on the edited values; a fee or tax the body does
\* not carry is not taken from the stored row
putAmounts(market, type, quantity, price, body) ==
    LET grossAmount == quantity * price
        brokerFee ==
            IF market = "TW" /\ Falsy(body.brokerFee)
            THEN Max(MathRoundRate(grossAmount, BrokerFeeRateNum, BrokerFeeRateDen),
                     MinBrokerFee) * PriceScale
            ELSE OrElse(body.brokerFee, 0) * TicksPerCent
        tax ==
            IF market = "TW" /\ type = "SELL" /\ Falsy(body.tax)
            THEN MathRoundRate(grossAmount, SellTaxRateNum, SellTaxRateDen) * PriceScale
            ELSE OrElse(body.tax, 0) * TicksPerCent
        totalAmount ==
            IF type = "BUY"
            THEN grossAmount + brokerFee + tax
            ELSE grossAmount - brokerFee - tax
    IN  [brokerFee |-> brokerFee, tax |-> tax, totalAmount |-> totalAmount]

----------------------------------------------------------------------------
(* The trade routes, each as the two tables it leaves.  A handler returns  *)
(* [transactions, holdings, status].  The snapshot step that ends POST,    *)
(* PUT and DELETE writes daily_net_values only and swallows its errors; it *)
(* touches neither of the two tables and is added where the request is     *)
(* committed (Commit).                                                     *)

Result(txs, hs, status) == [transactions |-> txs, holdings |-> hs, status |-> status]

\* the row POST inserts
postRow(userId, data) ==
    LET a == postAmounts(data)
    IN  [userId |-> userId,
         stockId |-> data.stock,
         type |-> data.type,
         quantity |-> data.quantity,
         price |-> ToScale4(RatInt(data.price)),
         currency |-> CurrencyOf(Market(data.stock)),
         transactionDate |-> data.transactionDate,
         brokerFee |-> ToScale2(RatInt(a.brokerFee)),
         tax |-> ToScale2(RatInt(a.tax)),
         totalAmount |-> ToScale2(RatInt(a.totalAmount))]

\* the quoted price handed to updateHoldings whatever the side
postCostPerShareQuoted(data) == RatInt(data.price)

\* the cost per share POST hands to updateHoldings
postCostPerShare(data) ==
    IF data.type = "BUY"
    THEN Rat(postAmounts(data).totalAmount, data.quantity)
    ELSE RatInt(data.price)

\* POST /api/transactions
POST(txs, hs, id, userId, data) ==
    Result(Insert(txs, id, postRow(userId, data)),
           updateHoldings(hs, userId, data.stock, data.type, data.quantity,
                          postCostPerShare(data), CurrencyOf(Market(data.stock))),
           200)

\* the select of findOwned without the userId condition
findOwnedById(txs, id, userId) ==
    IF id \in DOMAIN txs THEN Some(txs[id]) ELSE None

\* the trade `id` when it belongs to the session's user
findOwned(txs, id, userId) ==
    IF id \in DOMAIN txs /\ txs[id].userId = userId THEN Some(txs[id]) ELSE None

\* the cost per share PUT reverses the stored trade with
putOldCostPerShare(existingTransaction) ==
    IF existingTransaction.type = "BUY"
    THEN Rat(FromScale2(existingTransaction.totalAmount).n, existingTransaction.quantity)
    ELSE FromScale4(existingTransaction.price)

\* the values PUT writes: the body's, else the stored ones
putValues(existingTransaction, body) ==
    LET quantity == OrElse(body.quantity, existingTransaction.quantity)
        price == OrElse(body.price, FromScale4(existingTransaction.price).n)
        type == OrElse(body.type, existingTransaction.type)
        a == putAmounts(Market(existingTransaction.stockId), type, quantity, price, body)
    IN  [type |-> type, quantity |-> quantity, price |-> price,
         transactionDate |-> OrElse(body.transactionDate,
                                    existingTransaction.transactionDate),
         brokerFee |-> a.brokerFee, tax |-> a.tax, totalAmount |-> a.totalAmount]

\* the row PUT leaves
putRow(existingTransaction, body) ==
    LET v == putValues(existingTransaction, body)
    IN  [existingTransaction EXCEPT
            !.type = v.type,
            !.quantity = v.quantity,
            !.price = ToScale4(RatInt(v.price)),
            !.transactionDate = v.transactionDate,
            !.brokerFee = ToScale2(RatInt(v.brokerFee)),
            !.tax = ToScale2(RatInt(v.tax)),
            !.totalAmount = ToScale2(RatInt(v.totalAmount))]

\* the cost per share PUT applies the edited trade with
putCostPerShare(existingTransaction, body) ==
    LET v == putValues(existingTransaction, body)
    IN  IF v.type = "BUY" THEN Rat(v.totalAmount, v.quantity) ELSE RatInt(v.price)

\* PUT, first write: the stored trade's effect taken back
putReversed(hs, userId, existingTransaction) ==
    reverseHoldingEffect(hs, userId, existingTransaction.stockId,
                         existingTransaction.type, existingTransaction.quantity,
                         putOldCostPerShare(existingTransaction),
                         existingTransaction.currency)

\* PUT /api/transactions/[id]
PUT(txs, hs, id, userId, body) ==
    LET existing == findOwned(txs, id, userId)
    IN  IF existing = None
        THEN Result(txs, hs, 404)
        ELSE LET existingTransaction == existing[1]
                 v == putValues(existingTransaction, body)
             IN  Result(Insert(txs, id, putRow(existingTransaction, body)),
                        applyHoldingEffect(putReversed(hs, userId, existingTransaction),
                                           userId, existingTransaction.stockId,
                                           v.type, v.quantity,
                                           putCostPerShare(existingTransaction, body),
                                           CurrencyOf(Market(existingTransaction.stockId))),
                        200)

\* DELETE, first write: the stored trade's effect taken back
deleteReversed(hs, userId, transaction) ==
    reverseHoldingEffect(hs, userId, transaction.stockId, transaction.type,
                         transaction.quantity, FromScale4(transaction.price),
                         transaction.currency)

\* DELETE /api/transactions/[id]
DELETE(txs, hs, id, userId) ==
    LET existing == findOwned(txs, id, userId)
    IN  IF existing = None
        THEN Result(txs, hs, 404)
        ELSE Result(Remove(txs, id), deleteReversed(hs, userId, existing[1]), 200)

----------------------------------------------------------------------------
(* POST /api/holdings/recalculate: the holdings rebuilt from the log *)

\* the user's trade ids in (transactionDate, createdAt) order; createdAt is
\* the insertion order, which the ids follow
Before(txs, a, b) ==
    \/ txs[a].transactionDate < txs[b].transactionDate
    \/ txs[a].transactionDate = txs[b].transactionDate /\ a < b

RECURSIVE SortIds(_, _)
SortIds(txs, ids) ==
    IF ids = {} THEN << >>
    ELSE LET first == CHOOSE a \in ids : \A b \in ids \ {a} : Before(txs, a, b)
         IN  <<first>> \o SortIds(txs, ids \ {first})

userTransactions(txs, userId) ==
    SortIds(txs, {id \in DOMAIN txs : txs[id].userId = userId})

\* one trade folded into holdingsMap: stockId -> [quantity, totalCost, currency],
\* totalCost a JavaScript number (ticks)
recalcStep(holdingsMap, transaction) ==
    LET stockId == transaction.stockId
        existing == Find(holdingsMap, stockId)
    IN  IF transaction.type = "BUY"
        THEN LET costPerShare ==
                     RatDivInt(FromScale2(transaction.totalAmount), transaction.quantity)
                 transactionCost == RatMulInt(costPerShare, transaction.quantity)
             IN  IF existing # None
                 THEN Insert(holdingsMap, stockId,
                             [existing[1] EXCEPT
                                 !.quantity = @ + transaction.quantity,
                                 !.totalCost = RatAdd(@, transactionCost)])
                 ELSE Insert(holdingsMap, stockId,
                             [quantity |-> transaction.quantity,
                              totalCost |-> transactionCost,
                              currency |-> transaction.currency])
        ELSE IF existing # None /\ existing[1].quantity > 0
             THEN LET avgCost == RatDivInt(existing[1].totalCost, existing[1].quantity)
                      quantity == existing[1].quantity - transaction.quantity
                  IN  IF quantity <= 0
                      THEN Remove(holdingsMap, stockId)
                      ELSE Insert(holdingsMap, stockId,
                                  [existing[1] EXCEPT
                                      !.quantity = quantity,
                                      !.totalCost = RatMulInt(avgCost, quantity)])
             ELSE holdingsMap

RECURSIVE recalcFold(_, _, _)
recalcFold(txs, ids, holdingsMap) ==
    IF ids = << >> THEN holdingsMap
    ELSE recalcFold(txs, Tail(ids), recalcStep(holdingsMap, txs[Head(ids)]))

\* the holdings rows the route inserts for the user
recalcRows(txs, userId) ==
    LET holdingsMap == recalcFold(txs, userTransactions(txs, userId), EmptyTable)
        kept == {stockId \in DOMAIN holdingsMap : holdingsMap[stockId].quantity > 0}
    IN  [key \in {HoldingKey(userId, stockId) : stockId \in kept} |->
            LET holding == holdingsMap[key[2]]
            IN  [quantity |-> holding.quantity,
                 averageCost |-> ToScale4(RatDivInt(holding.totalCost, holding.quantity)),
                 totalCost |-> ToScale2(holding.totalCost),
                 currency |-> holding.currency]]

\* the holdings table after the route: the user's rows deleted, the rebuilt
\* rows inserted
recalculate(txs, hs, userId) ==
    LET rows == recalcRows(txs, userId)
        others == {key \in DOMAIN hs : key[1] # userId}
    IN  [key \in others \cup DOMAIN rows |->
            IF key \in DOMAIN rows THEN rows[key] ELSE hs[key]]

----------------------------------------------------------------------------
(* Daily net value snapshots (lib/services/net-value.ts).  `dnv` is the    *)
(* table daily_net_values, a set of rows; `ctx` is what the snapshot reads *)
(* from outside the two tables: the calendar day, the latest close of each *)
(* stock (no value: no stock_prices row) and the USD to TWD rate.  Values  *)
(* are numbers in ticks; the row keeps them as toFixed writes them: cents, *)
(* and millionths for the two returns.                                     *)

\* the rate getUSDToTWDRate falls back to, 32.0
DefaultUsdToTwdRate == 32

\* scale of dailyReturn / cumulativeReturn: 6 fractional digits
ReturnScale == 1000000

\* the next `digits` decimal digits of r / d, as [value, rest], 0 <= r < d
RECURSIVE Digits(_, _, _)
Digits(r, d, digits) ==
    IF digits = 0 THEN [value |-> 0, rest |-> r]
    ELSE LET next == Digits((r * 10) % d, d, digits - 1)
         IN  [value |-> ((r * 10) \div d) * (10 ^ (digits - 1)) + next.value,
              rest |-> next.rest]

\* x.toFixed(6) of a ratio, in millionths: the nearest, ties away from zero
ToFixed6(a) ==
    LET n == Abs(a.n)
        frac == Digits(n % a.d, a.d, 6)
        magnitude == (n \div a.d) * ReturnScale + frac.value
                         + (IF 2 * frac.rest >= a.d THEN 1 ELSE 0)
    IN  IF a.n < 0 THEN -magnitude ELSE magnitude

\* x.toFixed(2) of an amount in ticks, in cents
ToFixed2(a) == RoundHalfAway(a.n, a.d * TicksPerCent)

\* the rows of the user, and among them the one of the latest / earliest date
UserRows(dnv, userId) == {row \in dnv : row.userId = userId}
LatestRow(rows) ==
    IF rows = {} THEN None
    ELSE Some(CHOOSE row \in rows : \A other \in rows : other.date <= row.date)
EarliestRow(rows) ==
    IF rows = {} THEN None
    ELSE Some(CHOOSE row \in rows : \A other \in rows : row.date <= other.date)

\* the market value of the user's holdings of one market, in ticks
RECURSIVE marketValue(_, _, _, _)
marketValue(hs, keys, market, prices) ==
    IF keys = {} THEN 0
    ELSE LET key == CHOOSE k \in keys : TRUE
             holding == hs[key]
             price == OrElse(prices[key[2]], FromScale4(holding.averageCost).n)
             value == IF holding.quantity <= 0 \/ Market(key[2]) # market
                      THEN 0
                      ELSE price * holding.quantity
         IN  value + marketValue(hs, keys \ {key}, market, prices)

\* calculateUserNetValue: None when the user has no holding row
calculateUserNetValue(hs, dnv, userId, ctx) ==
    LET userHoldings == {key \in DOMAIN hs : key[1] = userId}
    IN  IF userHoldings = {} THEN None
        ELSE
        LET twStockValue == marketValue(hs, userHoldings, "TW", ctx.prices)
            usStockValue == marketValue(hs, userHoldings, "US", ctx.prices)
            totalValueTWD == RatInt(twStockValue + usStockValue * ctx.rate)
            previousValue == LatestRow(UserRows(dnv, userId))
            firstValue == EarliestRow(UserRows(dnv, userId))
            hasPrevious == previousValue # None /\ previousValue[1].totalValue > 0
            dailyReturn ==
                IF hasPrevious
                THEN LET prevTotal == FromScale2(previousValue[1].totalValue)
                     IN  Some(Rat(RatSub(totalValueTWD, prevTotal).n, prevTotal.n))
                ELSE None
            cumulativeReturn ==
                IF hasPrevious /\ firstValue[1].totalValue > 0
                THEN LET firstTotal == FromScale2(firstValue[1].totalValue)
                     IN  Some(Rat(RatSub(totalValueTWD, firstTotal).n, firstTotal.n))
                ELSE None
        IN  Some([userId |-> userId,
                  date |-> ctx.today,
                  twStockValue |-> RatInt(twStockValue),
                  usStockValue |-> RatInt(usStockValue),
                  totalValueTWD |-> totalValueTWD,
                  usdToTwdRate |-> ctx.rate,
                  dailyReturn |-> dailyReturn,
                  cumulativeReturn |-> cumulativeReturn])

\* x?.toFixed(6)
OptToFixed6(opt) == IF opt = None THEN None ELSE Some(ToFixed6(opt[1]))

\* the row saveUserNetValue inserts
snapshotRow(netValue) ==
    [userId |-> netValue.userId,
     date |-> netValue.date,
     twStockValue |-> ToFixed2(netValue.twStockValue),
     usStockValue |-> ToFixed2(netValue.usStockValue),
     totalValue |-> ToFixed2(netValue.totalValueTWD),
     usdToTwdRate |-> netValue.usdToTwdRate,
     dailyReturn |-> OptToFixed6(netValue.dailyReturn),
     cumulativeReturn |-> OptToFixed6(netValue.cumulativeReturn)]

\* the row onConflictDoUpdate leaves: a return that is undefined is no part
\* of the SET and keeps the value of the row
snapshotUpdated(old, netValue) ==
    LET new == snapshotRow(netValue)
    IN  [new EXCEPT
            !.dailyReturn = IF new.dailyReturn = None THEN old.dailyReturn ELSE @,
            !.cumulativeReturn =
                IF new.cumulativeReturn = None THEN old.cumulativeReturn ELSE @]

\* an insert with no ON CONFLICT clause on a table with no unique constraint
saveUserNetValueInsertOnly(dnv, netValue) == dnv \cup {snapshotRow(netValue)}

\* saveUserNetValue: insert, or update the row of (userId, date)
saveUserNetValue(dnv, netValue) ==
    LET conflict == {row \in dnv : row.userId = netValue.userId /\ row.date = netValue.date}
    IN  IF conflict = {}
        THEN dnv \cup {snapshotRow(netValue)}
        ELSE (dnv \ conflict) \cup {snapshotUpdated(row, netValue) : row \in conflict}

\* a test that lets every computed snapshot through
shouldSaveAny(netValue) == netValue # None

\* netValue && netValue.totalValueTWD > 0
shouldSave(netValue) == netValue # None /\ RatPos(netValue[1].totalValueTWD)

\* the snapshot step that ends POST, PUT and DELETE
snapshotStep(hs, dnv, userId, ctx) ==
    LET netValue == calculateUserNetValue(hs, dnv, userId, ctx)
    IN  IF shouldSave(netValue)
        THEN saveUserNetValue(dnv, netValue[1])
        ELSE dnv

\* what happens to one user of the batch: nothing goes wrong, or a store
\* read inside calculateUserNetValue throws (it catches and returns null), or
\* the write of saveUserNetValue throws
Outcomes == {"ok", "calculate", "save"}

\* the users selectDistinct returns, in the order it returns them
RECURSIVE usersWithHoldings(_)
usersWithHoldings(userIds) ==
    IF userIds = {} THEN << >>
    ELSE LET userId == CHOOSE u \in userIds : TRUE
         IN  <<userId>> \o usersWithHoldings(userIds \ {userId})

\* one turn of the loop of snapshotAllUserNetValues, on
\* [dnv, usersProcessed, errors]
snapshotAllTurn(acc, hs, userId, ctx, outcome) ==
    LET netValue == IF outcome = "calculate" THEN None
                    ELSE calculateUserNetValue(hs, acc.dnv, userId, ctx)
    IN  IF shouldSave(netValue)
        THEN IF outcome = "save"
             THEN [acc EXCEPT !.errors = Append(@, userId)]
             ELSE [acc EXCEPT !.dnv = saveUserNetValue(@, netValue[1]),
                              !.usersProcessed = @ + 1]
        ELSE acc

\* a loop that ends at the first user something goes wrong for
RECURSIVE snapshotAllLoopStops(_, _, _, _, _)
snapshotAllLoopStops(acc, hs, userIds, ctx, outcomes) ==
    IF userIds = << >> THEN acc
    ELSE LET turn == snapshotAllTurn(acc, hs, Head(userIds), ctx, outcomes[Head(userIds)])
         IN  IF outcomes[Head(userIds)] # "ok" THEN turn
             ELSE snapshotAllLoopStops(turn, hs, Tail(userIds), ctx, outcomes)

\* the loop of snapshotAllUserNetValues
RECURSIVE snapshotAllLoop(_, _, _, _, _)
snapshotAllLoop(acc, hs, userIds, ctx, outcomes) ==
    IF userIds = << >> THEN acc
    ELSE snapshotAllLoop(snapshotAllTurn(acc, hs, Head(userIds), ctx,
                                         outcomes[Head(userIds)]),
                         hs, Tail(userIds), ctx, outcomes)

\* snapshotAllUserNetValues: the table it leaves and the result it returns;
\* `selectFails`: the selectDistinct throws
snapshotAllUserNetValues(hs, dnv, ctx, outcomes, selectFails) ==
    IF selectFails
    THEN [dnv |-> dnv, success |-> FALSE, usersProcessed |-> 0, errors |-> <<"select">>]
    ELSE LET acc == snapshotAllLoop([dnv |-> dnv, usersProcessed |-> 0, errors |-> << >>],
                                    hs, usersWithHoldings({key[1] : key \in DOMAIN hs}),
                                    ctx, outcomes)
         IN  [dnv |-> acc.dnv, success |-> acc.errors = << >>,
              usersProcessed |-> acc.usersProcessed, errors |-> acc.errors]

----------------------------------------------------------------------------
(* Requests *)

\* trade rows ever inserted in a run
MaxTx == 2
\* requests in a run of the ledger
MaxOps == 3

Users == {"u1"}
Types == {"BUY", "SELL"}
Quantities == {1, 2}
\* 10.0000 and 12.5050
Prices == {100000, 125050}
\* 10.00 and 12.50
CentPrices == {100000, 125000}
Dates == {1, 2}
\* 1.50 and 0.25, in cents
FeeTaxInputs == {<<None, None>>, <<Some(150), None>>, <<Some(150), Some(25)>>}

TradeData(stocks, quantities, prices, dates, feeTaxes) ==
    {[stock |-> s, type |-> t, quantity |-> q, price |-> p, transactionDate |-> d,
      brokerFee |-> f[1], tax |-> f[2]] :
        s \in stocks, t \in Types, q \in quantities, p \in prices, d \in dates,
        f \in feeTaxes}

\* bodies createTransactionSchema accepts: those of the ledger runs
LedgerData == TradeData(StockIds, Quantities, CentPrices, {1}, {<<None, None>>})

NoBody ==
    [type |-> None, quantity |-> None, price |-> None, transactionDate |-> None,
     brokerFee |-> None, tax |-> None]

\* bodies of PUT: no field, or one field, or fee and tax
EditBodies ==
    {NoBody}
    \cup {[NoBody EXCEPT !.type = Some(t)] : t \in Types}
    \cup {[NoBody EXCEPT !.quantity = Some(q)] : q \in Quantities}
    \cup {[NoBody EXCEPT !.price = Some(p)] : p \in CentPrices}
    \cup {[NoBody EXCEPT !.transactionDate = Some(d)] : d \in Dates}
    \cup {[NoBody EXCEPT !.brokerFee = f[1], !.tax = f[2]] : f \in FeeTaxInputs}

----------------------------------------------------------------------------
(* The ledger: requests of signed-in users, one at a time *)

Responded(op, status, id) == [op |-> op, status |-> status, id |-> id]

\* the tables and the answer of a request of `userId`; a request that got
\* to its end (200) has run the snapshot step on the holdings it leaves
Commit(r, op, id, userId) ==
    /\ transactions' = r.transactions
    /\ holdings' = r.holdings
    /\ response' = Responded(op, r.status, id)
    /\ dailyNetValues' = IF r.status = 200
                         THEN snapshotStep(r.holdings, dailyNetValues, userId, env)
                         ELSE dailyNetValues
    /\ UNCHANGED <<env, inflight>>

CreateTrade(userId, data) ==
    /\ nextId < MaxTx
    /\ nextId' = nextId + 1
    /\ Commit(POST(transactions, holdings, nextId + 1, userId, data), "POST", nextId + 1,
              userId)

EditTrade(userId, id, body) ==
    /\ Commit(PUT(transactions, holdings, id, userId, body), "PUT", id, userId)
    /\ UNCHANGED nextId

DeleteTrade(userId, id) ==
    /\ Commit(DELETE(transactions, holdings, id, userId), "DELETE", id, userId)
    /\ UNCHANGED nextId

RecalculateHoldings(userId) ==
    /\ holdings' = recalculate(transactions, holdings, userId)
    /\ response' = Responded("RECALCULATE", 200, 0)
    /\ UNCHANGED <<transactions, nextId, dailyNetValues, env, inflight>>

\* hist: the number of requests so far, and the last POST while the request
\* after it has been no other than the DELETE of the row it inserted
Counted(undo) == hist' = [ops |-> hist.ops + 1, undo |-> undo]

\* day 1, no stock_prices row, the fallback rate
FirstDay == 1
NoPrices == [s \in StockIds |-> None]
EnvInit == env = [today |-> FirstDay, prices |-> NoPrices, rate |-> DefaultUsdToTwdRate]

LedgerInit ==
    /\ transactions = EmptyTable
    /\ holdings = EmptyTable
    /\ nextId = 0
    /\ response = Responded("none", 0, 0)
    /\ dailyNetValues = {}
    /\ EnvInit
    /\ inflight = {}

Init == LedgerInit /\ hist = [ops |-> 0, undo |-> None]

LedgerCreate(userId, data) ==
    /\ hist.ops < MaxOps
    /\ CreateTrade(userId, data)
    /\ Counted(Some([id |-> nextId + 1, row |-> transactions'[nextId + 1],
                     before |-> holdings, done |-> FALSE]))

LedgerEdit(userId, id, body) ==
    /\ hist.ops < MaxOps
    /\ EditTrade(userId, id, body)
    /\ Counted(None)

LedgerDelete(userId, id) ==
    /\ hist.ops < MaxOps
    /\ DeleteTrade(userId, id)
    /\ Counted(IF /\ hist.undo # None
                  /\ hist.undo[1].id = id
                  /\ ~hist.undo[1].done
                  /\ response'.status = 200
               THEN Some([hist.undo[1] EXCEPT !.done = TRUE])
               ELSE None)

LedgerRecalculate(userId) ==
    /\ hist.ops < MaxOps
    /\ RecalculateHoldings(userId)
    /\ Counted(None)

Next ==
    \/ \E u \in Users, data \in LedgerData : LedgerCreate(u, data)
    \/ \E u \in Users, id \in 1..MaxTx, body \in EditBodies : LedgerEdit(u, id, body)
    \/ \E u \in Users, id \in 1..MaxTx : LedgerDelete(u, id)
    \/ \E u \in Users : LedgerRecalculate(u)

Spec == Init /\ [][Next]_vars

----------------------------------------------------------------------------
(* Trades that are only recorded, in transactionDate order (SpecCreate) *)

CreateQuantities == {1, 3}
\* fee and tax left to the route, or given: 1.50 and 0.25
CreateFeeTaxes == {<<None, None>>, <<Some(150), Some(25)>>}
CreateData == TradeData(StockIds, CreateQuantities, Prices, Dates, CreateFeeTaxes)

\* the latest transactionDate of the user's trades, 0 when there is none
LatestDate(txs, userId) ==
    LET dates == {txs[id].transactionDate : id \in {i \in DOMAIN txs : txs[i].userId = userId}}
    IN  IF dates = {} THEN 0 ELSE CHOOSE d \in dates : \A e \in dates : e <= d

CreateInOrder(userId, data) ==
    /\ data.transactionDate >= LatestDate(transactions, userId)
    /\ LedgerCreate(userId, data)

NextCreate == \E u \in Users, data \in CreateData : CreateInOrder(u, data)

SpecCreate == Init /\ [][NextCreate]_vars

----------------------------------------------------------------------------
(* Properties of the ledger (Spec) *)

\* C1: after any sequence of completed create, edit and delete requests of a
\* user, the stored holdings of the user are the holdings the rebuild derives
\* from the trades left in the log: the same rows, with the same quantity,
\* totalCost and averageCost.
C1_HoldingsEqualRebuild ==
    \A u \in Users : holdings = recalculate(transactions, holdings, u)

\* C4: every stored holding row has totalCost = averageCost * quantity.  The
\* two columns keep 2 and 4 fractional digits, so the rows are compared to
\* the precision the columns can hold (half a cent, and half a tick per
\* share); a row that is off by more is a fortiori not equal.
C4_TotalCostIsAverageTimesQuantity ==
    \A key \in DOMAIN holdings :
        LET h == holdings[key]
        IN  2 * Abs(h.totalCost * TicksPerCent - h.averageCost * h.quantity)
                <= TicksPerCent + h.quantity

\* C6: no stored holding row has quantity <= 0.
C6_NoEmptyHoldingRow ==
    \A key \in DOMAIN holdings : holdings[key].quantity > 0

\* a SELL of at least the held quantity has just been recorded and the row is gone
C6_Witness ==
    /\ response = Responded("POST", 200, nextId)
    /\ hist.undo # None
    /\ LET u == hist.undo[1]
           key == HoldingKey(u.row.userId, u.row.stockId)
       IN  /\ u.row.type = "SELL"
           /\ key \in DOMAIN u.before
           /\ u.before[key].quantity <= u.row.quantity
           /\ key \notin DOMAIN holdings

\* C9: a BUY with fees recorded on an instrument that has a holding, and then
\* deleted, leaves the holding as it was before the BUY.
C9_DeleteUndoesRecord ==
    (hist.undo # None /\ hist.undo[1].done) =>
        LET u == hist.undo[1]
            key == HoldingKey(u.row.userId, u.row.stockId)
        IN  (/\ u.row.type = "BUY"
             /\ u.row.brokerFee + u.row.tax > 0
             /\ key \in DOMAIN u.before)
            => Find(holdings, key) = Find(u.before, key)

----------------------------------------------------------------------------
(* Properties of recorded trades (SpecCreate) *)

RowOf(table, userId, stockId) == Find(table, HoldingKey(userId, stockId))

TradesOf(txs, userId, stockId, type) ==
    {id \in DOMAIN txs : /\ txs[id].userId = userId
                          /\ txs[id].stockId = stockId
                          /\ txs[id].type = type}

RECURSIVE SumQuantity(_, _)
SumQuantity(txs, ids) ==
    IF ids = {} THEN 0
    ELSE LET id == CHOOSE i \in ids : TRUE
         IN  txs[id].quantity + SumQuantity(txs, ids \ {id})

\* the distance, in ticks, that the rounding of the stored decimals can put
\* between the two totalCosts after n trades of an instrument of which b
\* shares were bought: 0.03 and 0.0002 per share bought, for each trade
CostTolerance(n, b) == n * (3 * TicksPerCent + 2 * b)

C7_BuyAddsFeeInclusiveCost ==
    (/\ response = Responded("POST", 200, nextId)
     /\ hist.undo # None
     /\ hist.undo[1].row.type = "BUY")
    => LET u == hist.undo[1]
           key == HoldingKey(u.row.userId, u.row.stockId)
           Q == IF key \in DOMAIN u.before THEN u.before[key].quantity ELSE 0
           C == IF key \in DOMAIN u.before THEN u.before[key].totalCost ELSE 0
           q == u.row.quantity
           T == q * u.row.price + (u.row.brokerFee + u.row.tax) * TicksPerCent
       IN  /\ key \in DOMAIN holdings
           /\ holdings[key].quantity = Q + q
           /\ holdings[key].totalCost = ToScale2(RatInt(C * TicksPerCent + T))
           /\ holdings[key].averageCost = ToScale4(Rat(C * TicksPerCent + T, Q + q))

\* a BUY with a fee has been recorded on an instrument that had a holding
C7_Witness ==
    /\ response = Responded("POST", 200, nextId)
    /\ hist.undo # None
    /\ hist.undo[1].row.type = "BUY"
    /\ hist.undo[1].row.brokerFee > 0
    /\ hist.undo[1].row.tax > 0
    /\ HoldingKey(hist.undo[1].row.userId, hist.undo[1].row.stockId)
           \in DOMAIN hist.undo[1].before

----------------------------------------------------------------------------
(* The holding helpers on their own (SpecEffect): a holding state, then one *)
(* trade applied by updateHoldings or by applyHoldingEffect, then, after    *)
(* applyHoldingEffect, the same trade reversed by reverseHoldingEffect.     *)

\* shares held at the start
MaxHeld == 4
\* 10.0000 and 12.5050
HeldCosts == {100000, 125050}
\* costs per share: 10.00, 12.50 and 30.02
EffectCosts == {RatInt(100000), RatInt(125000), RatInt(300200)}

\* rows as a recorded BUY leaves them: totalCost is averageCost * quantity
\* in the two digits of its column
EffectRows(stockId) ==
    {[quantity |-> q, averageCost |-> a,
      totalCost |-> ToScale2(RatMulInt(FromScale4(a), q)),
      currency |-> CurrencyOf(Market(stockId))] : q \in 1..MaxHeld, a \in HeldCosts}

EffectHoldings ==
    {EmptyTable}
    \cup UNION {{Insert(EmptyTable, HoldingKey(u, s), row) : row \in EffectRows(s)} :
                   u \in Users, s \in StockIds}

EffectArgs ==
    {[userId |-> u, stockId |-> s, type |-> t, quantity |-> q, price |-> c] :
        u \in Users, s \in StockIds, t \in Types, q \in 1..MaxHeld, c \in EffectCosts}

EffectInit ==
    /\ transactions = EmptyTable
    /\ nextId = 0
    /\ response = Responded("none", 0, 0)
    /\ dailyNetValues = {}
    /\ EnvInit
    /\ inflight = {}
    /\ holdings \in EffectHoldings
    /\ hist = [stage |-> "start", args |-> None, before |-> holdings]

Staged(stage, args) ==
    /\ hist' = [hist EXCEPT !.stage = stage, !.args = Some(args)]
    /\ UNCHANGED <<transactions, nextId, response, dailyNetValues, env, inflight>>

EffectUpdate(args) ==
    /\ hist.stage = "start"
    /\ holdings' = updateHoldings(holdings, args.userId, args.stockId, args.type,
                                  args.quantity, args.price,
                                  CurrencyOf(Market(args.stockId)))
    /\ Staged("updated", args)

EffectApply(args) ==
    /\ hist.stage = "start"
    /\ holdings' = applyHoldingEffect(holdings, args.userId, args.stockId, args.type,
                                      args.quantity, args.price,
                                      CurrencyOf(Market(args.stockId)))
    /\ Staged("applied", args)

EffectReverse ==
    /\ hist.stage = "applied"
    /\ LET args == hist.args[1]
       IN  /\ holdings' = reverseHoldingEffect(holdings, args.userId, args.stockId,
                                               args.type, args.quantity, args.price,
                                               CurrencyOf(Market(args.stockId)))
           /\ Staged("reversed", args)

NextEffect ==
    \/ \E args \in EffectArgs : EffectUpdate(args)
    \/ \E args \in EffectArgs : EffectApply(args)
    \/ EffectReverse

SpecEffect == EffectInit /\ [][NextEffect]_vars

\* a holding state of the kind C2 speaks of: no row, or rows with
\* quantity > 0 and totalCost = averageCost * quantity
ValidHoldings(hs) ==
    \A key \in DOMAIN hs :
        /\ hs[key].quantity > 0
        /\ hs[key].totalCost * TicksPerCent = hs[key].averageCost * hs[key].quantity

\* C2: from a holding state h that is absent or has quantity > 0 and
\* totalCost = averageCost * quantity, a trade of either side applied with
\* applyHoldingEffect and then reversed with reverseHoldingEffect on the same
\* side, quantity and cost per share leaves the holding state h.
C2_ReverseUndoesApply ==
    (hist.stage = "reversed" /\ ValidHoldings(hist.before)) => holdings = hist.before

\* C5: a SELL of q applied, by updateHoldings or applyHoldingEffect, to a row
\* with quantity > q leaves the row with quantity - q, its averageCost
\* unchanged and totalCost (quantity - q) * averageCost as the column stores
\* it; and no SELL applied leaves a row with another averageCost than before.
C5_SellKeepsAverageCost ==
    (hist.stage \in {"updated", "applied"} /\ hist.args[1].type = "SELL") =>
        LET args == hist.args[1]
            before == RowOf(hist.before, args.userId, args.stockId)
            after == RowOf(holdings, args.userId, args.stockId)
        IN  /\ (before # None /\ before[1].quantity > args.quantity) =>
                   /\ after # None
                   /\ after[1].quantity = before[1].quantity - args.quantity
                   /\ after[1].averageCost = before[1].averageCost
                   /\ after[1].totalCost =
                          ToScale2(RatInt(after[1].quantity * before[1].averageCost))
            /\ after # None =>
                   /\ before # None
                   /\ after[1].averageCost = before[1].averageCost

\* applyHoldingEffect has applied a SELL to a row that held more, and the
\* cost of the shares left is not a whole number of cents
C5_Witness ==
    /\ hist.stage = "applied"
    /\ hist.args[1].type = "SELL"
    /\ LET args == hist.args[1]
           before == RowOf(hist.before, args.userId, args.stockId)
           after == RowOf(holdings, args.userId, args.stockId)
       IN  /\ before # None
           /\ before[1].quantity > args.quantity
           /\ after # None
           /\ (after[1].quantity * after[1].averageCost) % TicksPerCent # 0

----------------------------------------------------------------------------
(* Edits whose body no schema has checked (SpecUnvalidated).  PUT reads    *)
(* request.json() and uses it as it is: updateTransactionSchema is defined *)
(* and never applied.  The bodies here carry a quantity that               *)
(* createTransactionSchema would refuse, and edit a SELL row, where no     *)
(* step divides by a quantity (with a BUY row a quantity of 0, or one that *)
(* brings the holding to 0, makes JavaScript divide by zero).              *)

UnvalidatedQuantities == {-1, 0}
UnvalidatedBodies == {[NoBody EXCEPT !.quantity = Some(q)] : q \in UnvalidatedQuantities}

EditUnvalidated(userId, id, body) ==
    /\ findOwned(transactions, id, userId) # None
    /\ findOwned(transactions, id, userId)[1].type = "SELL"
    /\ LedgerEdit(userId, id, body)

NextUnvalidated ==
    \/ \E u \in Users, data \in LedgerData : LedgerCreate(u, data)
    \/ \E u \in Users, id \in 1..MaxTx, body \in UnvalidatedBodies :
           EditUnvalidated(u, id, body)

SpecUnvalidated == Init /\ [][NextUnvalidated]_vars

\* C8: every stored trade row has quantity > 0 and a totalAmount that is
\* quantity * price + brokerFee + tax for a BUY and
\* quantity * price - brokerFee - tax for a SELL, computed from the stored
\* quantity, price, brokerFee and tax (in the two digits of the column).
C8_TradeRowConsistent ==
    \A id \in DOMAIN transactions :
        LET row == transactions[id]
            gross == row.quantity * row.price
            fees == (row.brokerFee + row.tax) * TicksPerCent
        IN  /\ row.quantity > 0
            /\ row.totalAmount =
                   ToScale2(RatInt(IF row.type = "BUY" THEN gross + fees ELSE gross - fees))

----------------------------------------------------------------------------
(* Requests in which a call to the store throws (SpecFail).  No route      *)
(* opens a database transaction: each handler awaits its writes one after  *)
(* the other inside one try, and its catch answers 500.  `step` names the  *)
(* part of the handler in which the call throws; the writes of the parts   *)
(* before it stay.                                                         *)

\* POST: the insert of the row throws, or updateHoldings does
POSTFailing(txs, hs, id, userId, data, step) ==
    IF step = "row"
    THEN Result(txs, hs, 500)
    ELSE Result(Insert(txs, id, postRow(userId, data)), hs, 500)

\* PUT: reverseHoldingEffect throws, or the update of the row, or
\* applyHoldingEffect
PUTFailing(txs, hs, id, userId, body, step) ==
    LET existingTransaction == findOwned(txs, id, userId)[1]
    IN  IF step = "reverse"
        THEN Result(txs, hs, 500)
        ELSE IF step = "row"
        THEN Result(txs, putReversed(hs, userId, existingTransaction), 500)
        ELSE Result(Insert(txs, id, putRow(existingTransaction, body)),
                    putReversed(hs, userId, existingTransaction), 500)

\* DELETE: reverseHoldingEffect throws, or the delete of the row
DELETEFailing(txs, hs, id, userId, step) ==
    LET transaction == findOwned(txs, id, userId)[1]
    IN  IF step = "reverse"
        THEN Result(txs, hs, 500)
        ELSE Result(txs, deleteReversed(hs, userId, transaction), 500)

CreateFails(userId, data, step) ==
    /\ hist.ops < MaxOps
    /\ nextId < MaxTx
    /\ nextId' = IF step = "row" THEN nextId ELSE nextId + 1
    /\ Commit(POSTFailing(transactions, holdings, nextId + 1, userId, data, step),
              "POST", 0, userId)
    /\ Counted(None)

EditFails(userId, id, body, step) ==
    /\ hist.ops < MaxOps
    /\ findOwned(transactions, id, userId) # None
    /\ Commit(PUTFailing(transactions, holdings, id, userId, body, step), "PUT", id,
              userId)
    /\ UNCHANGED nextId
    /\ Counted(None)

DeleteFails(userId, id, step) ==
    /\ hist.ops < MaxOps
    /\ findOwned(transactions, id, userId) # None
    /\ Commit(DELETEFailing(transactions, holdings, id, userId, step), "DELETE", id,
              userId)
    /\ UNCHANGED nextId
    /\ Counted(None)

NextFail ==
    \/ Next
    \/ \E u \in Users, data \in LedgerData, step \in {"row", "holdings"} :
           CreateFails(u, data, step)
    \/ \E u \in Users, id \in 1..MaxTx, body \in EditBodies,
          step \in {"reverse", "row", "apply"} : EditFails(u, id, body, step)
    \/ \E u \in Users, id \in 1..MaxTx, step \in {"reverse", "row"} :
           DeleteFails(u, id, step)

SpecFail == Init /\ [][NextFail]_vars

\* C10: a create, edit or delete in which a store write fails answers with a
\* failure and leaves the trade rows and the holding rows as they were when
\* the call started.
C10_FailureLeavesRowsUnchanged ==
    [][response'.status = 500 =>
          (transactions' = transactions /\ holdings' = holdings)]_vars

----------------------------------------------------------------------------
(* Trades whose store calls interleave (SpecConcurrent).  No route runs in *)
(* a database transaction and no row is locked: between the findFirst of   *)
(* updateHoldings and the statement that follows it, another request may   *)
(* run any of its own calls.  A request in flight has inserted its trade   *)
(* and read the holding; `gone` says the row it read has been deleted      *)
(* since, so that its UPDATE or DELETE by id meets no row.                 *)

\* requests between their read and their write at one time
MaxInflight == 2
\* trades in a run
MaxTrades == 3

ConcurrentData == TradeData({"TW:2330"}, Quantities, {100000}, {1}, {<<None, None>>})

\* the statement of updateHoldings that follows findFirst, on the table as it
\* is by then: [holdings, status]; an INSERT that meets a row of the same
\* (userId, stockId) breaks holdings_user_stock_unique and throws
updateHoldingsWrite(hs, key, existingHolding, gone, type, quantity, price, currency) ==
    IF type = "BUY"
    THEN IF existingHolding # None
         THEN [holdings |-> IF gone THEN hs
                            ELSE Written(hs, key,
                                         updateHoldingsBuy(existingHolding[1], quantity, price)),
               status |-> 200]
         ELSE IF key \in DOMAIN hs
              THEN [holdings |-> hs, status |-> 500]
              ELSE [holdings |-> Written(hs, key,
                                         updateHoldingsInsert(quantity, price, currency)),
                    status |-> 200]
    ELSE [holdings |-> IF existingHolding # None /\ ~gone
                       THEN Written(hs, key,
                                    updateHoldingsSell(existingHolding[1], quantity))
                       ELSE hs,
          status |-> 200]

\* POST up to the findFirst of updateHoldings: the trade is inserted and the
\* holding read
BeginTrade(userId, data) ==
    /\ nextId < MaxTrades
    /\ Cardinality(inflight) < MaxInflight
    /\ nextId' = nextId + 1
    /\ transactions' = Insert(transactions, nextId + 1, postRow(userId, data))
    /\ inflight' = inflight \cup
           {[id |-> nextId + 1, userId |-> userId, data |-> data,
             existingHolding |-> Find(holdings, HoldingKey(userId, data.stock)),
             gone |-> FALSE]}
    /\ hist' = [hist EXCEPT !.trades = Append(@, [id |-> nextId + 1, userId |-> userId,
                                                   data |-> data])]
    /\ UNCHANGED <<holdings, response, dailyNetValues, env>>

\* POST from the write of updateHoldings to its answer
FinishTrade(job) ==
    LET key == HoldingKey(job.userId, job.data.stock)
        w == updateHoldingsWrite(holdings, key, job.existingHolding, job.gone,
                                 job.data.type, job.data.quantity,
                                 postCostPerShare(job.data),
                                 CurrencyOf(Market(job.data.stock)))
        deleted == key \in DOMAIN holdings /\ key \notin DOMAIN w.holdings
    IN  /\ holdings' = w.holdings
        /\ response' = Responded("POST", w.status, job.id)
        /\ dailyNetValues' = IF w.status = 200
                             THEN snapshotStep(w.holdings, dailyNetValues, job.userId, env)
                             ELSE dailyNetValues
        /\ inflight' = {IF deleted /\ HoldingKey(j.userId, j.data.stock) = key
                           /\ j.existingHolding # None
                        THEN [j EXCEPT !.gone = TRUE] ELSE j : j \in inflight \ {job}}
        /\ hist' = [hist EXCEPT !.failed = IF w.status = 200 THEN @ ELSE @ \cup {job.id}]
        /\ UNCHANGED <<transactions, nextId, env>>

ConcurrentInit == LedgerInit /\ hist = [trades |-> << >>, failed |-> {}]

NextConcurrent ==
    \/ \E u \in Users, data \in ConcurrentData : BeginTrade(u, data)
    \/ \E job \in inflight : FinishTrade(job)

SpecConcurrent == ConcurrentInit /\ [][NextConcurrent]_vars

\* the holdings after the trades run one after the other in `order`
RECURSIVE SerialHoldings(_, _)
SerialHoldings(trades, order) ==
    IF order = << >> THEN EmptyTable
    ELSE LET n == Len(order)
             t == trades[order[n]]
         IN  updateHoldings(SerialHoldings(trades, SubSeq(order, 1, n - 1)),
                            t.userId, t.data.stock, t.data.type, t.data.quantity,
                            postCostPerShare(t.data), CurrencyOf(Market(t.data.stock)))

Orders(n) == {order \in [1..n -> 1..n] : \A i, j \in 1..n : order[i] = order[j] => i = j}

\* C11: once the trades on a (user, instrument) have all completed, none of
\* them has failed and the holdings are those of the trades run one after the
\* other in some order, however their reads and writes interleaved
C11_ConcurrentTradesSerialized ==
    (inflight = {} /\ hist.trades # << >>) =>
        /\ hist.failed = {}
        /\ \E order \in Orders(Len(hist.trades)) :
               holdings = SerialHoldings(hist.trades, order)

----------------------------------------------------------------------------
(* Snapshots over days (SpecSnapshot): trades with their snapshot step,    *)
(* the batch job of POST /api/cron/snapshot-values, the calendar and the   *)
(* closes of stock_prices.                                                 *)

SnapshotUsers == {"u1", "u2"}
\* the last calendar day of a run
MaxDay == 2
\* requests, day changes and price changes in a run
MaxSnapshotOps == 4
\* closes a stock_prices row of TW:2330 may hold: 0.0000 and 11.0000; the
\* other stock has no such row and is valued at its average cost
Closes == {0, 110000}

SnapshotData == TradeData(StockIds, {1}, {100000}, {1}, {<<None, None>>})

\* hist: the steps so far, and the batch run when it is the last step: who
\* it went wrong for, whose snapshot it saved, the rows before it
Stepped(batch) == hist' = [ops |-> hist.ops + 1, batch |-> batch]

SnapshotInit == LedgerInit /\ hist = [ops |-> 0, batch |-> None]

SnapshotTrade(userId, data) ==
    /\ hist.ops < MaxSnapshotOps
    /\ CreateTrade(userId, data)
    /\ Stepped(None)

\* POST /api/cron/snapshot-values
SnapshotAll(outcomes, selectFails) ==
    LET result == snapshotAllUserNetValues(holdings, dailyNetValues, env, outcomes,
                                           selectFails)
        withRows == {key[1] : key \in DOMAIN holdings}
        attempted == {u \in withRows :
                         shouldSave(calculateUserNetValue(holdings, dailyNetValues, u, env))}
    IN  /\ hist.ops < MaxSnapshotOps
        /\ dailyNetValues' = result.dnv
        /\ response' = [op |-> "SNAPSHOT", status |-> 200, id |-> 0,
                        success |-> result.success,
                        usersProcessed |-> result.usersProcessed,
                        errors |-> result.errors]
        /\ Stepped(Some([selectFails |-> selectFails,
                         failed |-> IF selectFails THEN {}
                                    ELSE {u \in withRows :
                                             \/ outcomes[u] = "calculate"
                                             \/ outcomes[u] = "save" /\ u \in attempted},
                         saved |-> IF selectFails THEN {}
                                   ELSE {u \in attempted : outcomes[u] = "ok"},
                         before |-> dailyNetValues]))
        /\ UNCHANGED <<transactions, holdings, nextId, env, inflight>>

\* midnight
NextDay ==
    /\ hist.ops < MaxSnapshotOps
    /\ env.today < MaxDay
    /\ env' = [env EXCEPT !.today = @ + 1]
    /\ Stepped(None)
    /\ UNCHANGED <<transactions, holdings, nextId, response, dailyNetValues, inflight>>

\* a new latest stock_prices row of the stock
PriceChange(stockId, close) ==
    /\ hist.ops < MaxSnapshotOps
    /\ env.prices[stockId] # Some(close)
    /\ env' = [env EXCEPT !.prices[stockId] = Some(close)]
    /\ Stepped(None)
    /\ UNCHANGED <<transactions, holdings, nextId, response, dailyNetValues, inflight>>

NextSnapshot ==
    \/ \E u \in SnapshotUsers, data \in SnapshotData : SnapshotTrade(u, data)
    \/ \E outcomes \in [SnapshotUsers -> Outcomes] : SnapshotAll(outcomes, FALSE)
    \/ SnapshotAll([u \in SnapshotUsers |-> "ok"], TRUE)
    \/ NextDay
    \/ \E close \in Closes : PriceChange("TW:2330", close)

SpecSnapshot == SnapshotInit /\ [][NextSnapshot]_vars

\* the rows a step wrote: new ones, and rows whose values changed
WrittenRows == dailyNetValues' \ dailyNetValues

\* the user's latest snapshot dated strictly before the row
PriorRow(dnv, row) == LatestRow({r \in UserRows(dnv, row.userId) : r.date < row.date})

\* (total - base) / base to 6 digits, both totals in cents
ReturnOn(total, base) == ToFixed6(Rat(total - base, base))

\* C13: a snapshot stored for (user, D), also over a snapshot of D stored
\* earlier that day, has dailyReturn = (total_D - total_P) / total_P for P the
\* user's latest snapshot dated before D, and no dailyReturn when there is no
\* such P or its total is not positive
C13_DailyReturnAgainstPriorDay ==
    [][\A row \in WrittenRows :
          LET prior == PriorRow(dailyNetValues, row)
          IN  row.dailyReturn =
                  IF prior # None /\ prior[1].totalValue > 0
                  THEN Some(ReturnOn(row.totalValue, prior[1].totalValue))
                  ELSE None]_vars

\* C14: the earliest snapshot of a user carries no cumulativeReturn however
\* often it is computed again that day, and a snapshot of a later day
\* carries (total - total_first) / total_first when total_first > 0
C14_CumulativeReturnFromFirst ==
    \A row \in dailyNetValues :
        LET first == EarliestRow(UserRows(dailyNetValues, row.userId))[1]
        IN  IF row.date = first.date
            THEN row.cumulativeReturn = None
            ELSE first.totalValue > 0 =>
                     row.cumulativeReturn =
                         Some(ReturnOn(row.totalValue, first.totalValue))

\* C15: two batch runs in a row on one day, with the holdings, the closes
\* and the rate the same, leave each user's stored row as the first run left
\* it
C15_SnapshotIdempotent ==
    [][(hist.batch # None /\ hist'.batch # None) =>
          \A u \in hist.batch[1].saved \cap hist'.batch[1].saved :
              UserRows(dailyNetValues', u) = UserRows(dailyNetValues, u)]_vars

\* no holding row, or a totalValueTWD <= 0
Worthless(netValue) == netValue = None \/ ~RatPos(netValue[1].totalValueTWD)

\* C16: a step of the batch job or of a trade writes no row for a user who
\* has no holding row or whose computed totalValueTWD is <= 0, and every row
\* written has a total > 0
C16_NoSnapshotWithoutValue ==
    [][/\ \A row \in WrittenRows : row.totalValue > 0
       /\ \A u \in SnapshotUsers :
              Worthless(calculateUserNetValue(holdings', dailyNetValues, u, env))
                  => UserRows(dailyNetValues', u) = UserRows(dailyNetValues, u)]_vars

\* the batch has just run over a user whose holding is worth 0 and one whose
\* holding is worth more, and wrote a row for the second only
C16_Witness ==
    /\ hist.batch # None
    /\ \E u \in SnapshotUsers :
           LET netValue == calculateUserNetValue(holdings, hist.batch[1].before, u, env)
           IN  /\ netValue # None
               /\ ~RatPos(netValue[1].totalValueTWD)
               /\ UserRows(dailyNetValues, u) = UserRows(hist.batch[1].before, u)
    /\ dailyNetValues # hist.batch[1].before

\* C17: when the batch goes wrong for one user, every other user with
\* holdings and a positive total has a row of the day with that total after
\* it, and no row of before the run is gone
C17_BatchGoesOnAfterFailure ==
    [][(hist'.batch # None /\ ~hist'.batch[1].selectFails) =>
          /\ \A u \in {key[1] : key \in DOMAIN holdings} \ hist'.batch[1].failed :
                 LET netValue == calculateUserNetValue(holdings, dailyNetValues, u, env)
                 IN  ~Worthless(netValue) =>
                         \E row \in dailyNetValues' :
                             /\ row.userId = u
                             /\ row.date = env.today
                             /\ row.totalValue = ToFixed2(netValue[1].totalValueTWD)
          /\ \A old \in dailyNetValues :
                 \E row \in dailyNetValues' :
                     row.userId = old.userId /\ row.date = old.date]_vars

\* the batch has gone wrong for a user and written the row of another
C17_Witness ==
    /\ hist.batch # None
    /\ hist.batch[1].failed # {}
    /\ \E row \in dailyNetValues \ hist.batch[1].before :
           row.userId \notin hist.batch[1].failed

\* the users named in the errors of the batch result
ErrorUsers == {response.errors[i] : i \in DOMAIN response.errors}

\* C18: the batch result has success = true exactly when errors is empty,
\* and every user whose computation or save failed has an entry in errors
C18_EveryFailureReported ==
    hist.batch # None =>
        /\ response.success <=> response.errors = << >>
        /\ hist.batch[1].failed \subseteq ErrorUsers

----------------------------------------------------------------------------
(* Snapshots whose store calls interleave (SpecUpsert): between the        *)
(* calculateUserNetValue of a request or of the batch and the              *)
(* saveUserNetValue that follows it, other requests run.  The save is one  *)
(* INSERT ... ON CONFLICT DO UPDATE statement.                             *)

\* calculateUserNetValue and the test on its result; the save is to come
CalculateSnapshot(userId) ==
    LET netValue == calculateUserNetValue(holdings, dailyNetValues, userId, env)
    IN  /\ hist.ops < MaxSnapshotOps
        /\ Cardinality(inflight) < MaxInflight
        /\ shouldSave(netValue)
        /\ inflight' = inflight \cup {netValue[1]}
        /\ Stepped(None)
        /\ UNCHANGED <<transactions, holdings, nextId, response, dailyNetValues, env>>

\* the saveUserNetValue of a snapshot computed earlier
SaveSnapshot(netValue) ==
    /\ dailyNetValues' = saveUserNetValue(dailyNetValues, netValue)
    /\ inflight' = inflight \ {netValue}
    /\ UNCHANGED <<transactions, holdings, nextId, response, hist, env>>

NextUpsert ==
    \/ \E u \in SnapshotUsers, data \in SnapshotData : SnapshotTrade(u, data)
    \/ \E u \in SnapshotUsers : CalculateSnapshot(u)
    \/ \E netValue \in inflight : SaveSnapshot(netValue)
    \/ NextDay
    \/ \E close \in Closes : PriceChange("TW:2330", close)

SpecUpsert == SnapshotInit /\ [][NextUpsert]_vars

\* the rows of (userId, date)
RowsOf(dnv, userId, date) == {row \in dnv : row.userId = userId /\ row.date = date}

----------------------------------------------------------------------------
(* Performance metrics (lib/services/analytics.ts).  Values are the totals *)
(* of the rows in cents, returns are ratios.  Two numbers of the source    *)
(* are kept unevaluated, as what they are computed from: the volatility,   *)
(* a square root, is kept as its square (0 exactly when the volatility is  *)
(* 0), and the CAGR, a power, as the growth and the days it is taken over. *)

\* TRADING_DAYS_PER_YEAR
TradingDaysPerYear == 252
\* RISK_FREE_RATE, 0.015
RiskFreeRate == Rat(15, 1000)

RatMul(a, b) == Rat(a.n * b.n, a.d * b.d)
RatGreater(a, b) == a.n * b.d > b.n * a.d

\* findMany ... orderBy date
RECURSIVE orderedByDate(_)
orderedByDate(rows) ==
    IF rows = {} THEN << >>
    ELSE LET first == EarliestRow(rows)[1]
         IN  <<first>> \o orderedByDate(rows \ {first})

\* the points getUserPerformanceMetrics maps the rows to
metricValues(netValues) ==
    [i \in DOMAIN netValues |->
        [date |-> netValues[i].date,
         value |-> netValues[i].totalValue,
         dailyReturn |-> IF netValues[i].dailyReturn = None THEN None
                         ELSE Some(Rat(netValues[i].dailyReturn[1], ReturnScale))]]

\* the returns with a row that has none counted as a return of 0
RECURSIVE dailyReturnsNullAsZero(_)
dailyReturnsNullAsZero(values) ==
    IF values = << >> THEN << >>
    ELSE <<IF Head(values).dailyReturn = None THEN RatInt(0)
           ELSE Head(values).dailyReturn[1]>>
             \o dailyReturnsNullAsZero(Tail(values))

\* values.filter(v => v.dailyReturn !== null), as the returns handed to
\* calculateVolatility
RECURSIVE dailyReturnsOf(_)
dailyReturnsOf(values) ==
    IF values = << >> THEN << >>
    ELSE (IF Head(values).dailyReturn = None THEN << >>
          ELSE <<Head(values).dailyReturn[1]>>) \o dailyReturnsOf(Tail(values))

RECURSIVE RatSum(_)
RatSum(numbers) ==
    IF numbers = << >> THEN RatInt(0) ELSE RatAdd(Head(numbers), RatSum(Tail(numbers)))

\* calculateCAGR, unevaluated: 0, or the growth and the days of the power
calculateCAGR(startValue, endValue, days) ==
    IF startValue <= 0 \/ days <= 0
    THEN [zero |-> TRUE, growth |-> RatInt(1), days |-> 0]
    ELSE [zero |-> FALSE, growth |-> Rat(endValue, startValue), days |-> days]

\* calculateVolatility, as the square of the percentage it returns
calculateVolatility(dailyReturns) ==
    IF Len(dailyReturns) < 2 THEN RatInt(0)
    ELSE LET n == Len(dailyReturns)
             mean == RatDivInt(RatSum(dailyReturns), n)
             squares == [i \in 1..n |->
                            RatMul(RatSub(dailyReturns[i], mean),
                                   RatSub(dailyReturns[i], mean))]
             variance == RatDivInt(RatSum(squares), n - 1)
         IN  RatMulInt(variance, TradingDaysPerYear * 100 * 100)

\* calculateSharpeRatio, unevaluated: 0, or the return and the volatility of
\* the quotient
calculateSharpeRatio(annualizedReturn, volatility) ==
    [zero |-> volatility = RatInt(0),
     annualizedReturn |-> annualizedReturn, riskFreeRate |-> RiskFreeRate,
     volatility |-> volatility]

\* a turn of the loop in which a drawdown equal to the deepest so far
\* replaces it
drawdownTurnLaterWins(st, point) ==
    LET higher == point.value > st.peak
        peak == IF higher THEN point.value ELSE st.peak
        currentDrawdownStart == IF higher THEN point.date ELSE st.currentDrawdownStart
        drawdown == Rat(peak - point.value, peak)
        deeper == ~RatGreater(st.maxDrawdown, drawdown)
    IN  [peak |-> peak,
         currentDrawdownStart |-> currentDrawdownStart,
         maxDrawdown |-> IF deeper THEN drawdown ELSE st.maxDrawdown,
         drawdownStart |-> IF deeper THEN currentDrawdownStart ELSE st.drawdownStart,
         drawdownEnd |-> IF deeper THEN point.date ELSE st.drawdownEnd]

\* a turn of the loop of calculateMaxDrawdown
drawdownTurn(st, point) ==
    LET higher == point.value > st.peak
        peak == IF higher THEN point.value ELSE st.peak
        currentDrawdownStart == IF higher THEN point.date ELSE st.currentDrawdownStart
        drawdown == Rat(peak - point.value, peak)
        deeper == RatGreater(drawdown, st.maxDrawdown)
    IN  [peak |-> peak,
         currentDrawdownStart |-> currentDrawdownStart,
         maxDrawdown |-> IF deeper THEN drawdown ELSE st.maxDrawdown,
         drawdownStart |-> IF deeper THEN currentDrawdownStart ELSE st.drawdownStart,
         drawdownEnd |-> IF deeper THEN point.date ELSE st.drawdownEnd]

RECURSIVE drawdownLoop(_, _)
drawdownLoop(st, values) ==
    IF values = << >> THEN st
    ELSE drawdownLoop(drawdownTurn(st, Head(values)), Tail(values))

\* calculateMaxDrawdown: the percentage, and the period when there is one
calculateMaxDrawdown(values) ==
    IF Len(values) < 2 THEN [maxDrawdown |-> RatInt(0), period |-> None]
    ELSE LET st == drawdownLoop([peak |-> values[1].value,
                                 currentDrawdownStart |-> values[1].date,
                                 maxDrawdown |-> RatInt(0),
                                 drawdownStart |-> values[1].date,
                                 drawdownEnd |-> values[1].date], values)
         IN  [maxDrawdown |-> RatMulInt(st.maxDrawdown, 100),
              period |-> IF RatPos(st.maxDrawdown)
                         THEN Some([start |-> st.drawdownStart, end |-> st.drawdownEnd])
                         ELSE None]

\* days of a calendar year of the runs: the days 1..DaysPerYear are year 1,
\* the next DaysPerYear days year 2, and so on
DaysPerYear == 2
YearOf(date) == 1 + (date - 1) \div DaysPerYear

\* the rows of every year up to the requested one
netValuesUpToYear(dnv, userId, year) ==
    {row \in UserRows(dnv, userId) : year = None \/ YearOf(row.date) <= year[1]}

\* the rows findMany selects: all of the user, or those dated from 01-01 to
\* 12-31 of the year
netValuesOfYear(dnv, userId, year) ==
    {row \in UserRows(dnv, userId) : year = None \/ YearOf(row.date) = year[1]}

\* a return of the series with its date, in percent
datedReturns(values) ==
    LET kept == SelectSeq(values, LAMBDA v : v.dailyReturn # None)
    IN  [i \in DOMAIN kept |-> [date |-> kept[i].date,
                                return |-> RatMulInt(kept[i].dailyReturn[1], 100)]]

\* calculateDailyStats: the sort is stable, so of equal returns the earliest
\* is the best day and the latest the worst day
calculateDailyStats(dailyReturns) ==
    IF Len(dailyReturns) = 0
    THEN [winRate |-> RatInt(0), bestDay |-> None, worstDay |-> None]
    ELSE LET n == Len(dailyReturns)
             winningDays == Cardinality({i \in 1..n : RatPos(dailyReturns[i].return)})
             best == CHOOSE i \in 1..n :
                         /\ \A k \in 1..n : ~RatGreater(dailyReturns[k].return,
                                                        dailyReturns[i].return)
                         /\ \A k \in 1..(i - 1) : RatGreater(dailyReturns[i].return,
                                                             dailyReturns[k].return)
             worst == CHOOSE i \in 1..n :
                          /\ \A k \in 1..n : ~RatGreater(dailyReturns[i].return,
                                                         dailyReturns[k].return)
                          /\ \A k \in (i + 1)..n : RatGreater(dailyReturns[k].return,
                                                              dailyReturns[i].return)
         IN  [winRate |-> Rat(winningDays * 100, n),
              bestDay |-> Some(dailyReturns[best]),
              worstDay |-> Some(dailyReturns[worst])]

\* (endValue - startValue) / startValue * 100, or 0
returnSince(startValue, endValue) ==
    IF startValue > 0 THEN Rat((endValue - startValue) * 100, startValue) ELSE RatInt(0)

\* getUserPerformanceMetrics: `year` is the requested year, or none for the
\* full history; `thisYear` the year of the clock
getUserPerformanceMetrics(dnv, userId, year, thisYear) ==
    LET netValues == orderedByDate(netValuesOfYear(dnv, userId, year))
    IN  IF Len(netValues) = 0
        THEN [totalReturn |-> RatInt(0), ytdReturn |-> RatInt(0),
              cagr |-> calculateCAGR(0, 0, 0), volatility |-> RatInt(0),
              sharpeRatio |-> calculateSharpeRatio(calculateCAGR(0, 0, 0), RatInt(0)),
              maxDrawdown |-> RatInt(0), maxDrawdownPeriod |-> None, tradingDays |-> 0,
              winRate |-> RatInt(0), bestDay |-> None, worstDay |-> None]
        ELSE LET values == metricValues(netValues)
                 startValue == values[1].value
                 endValue == values[Len(values)].value
                 targetYear == OrElse(year, thisYear)
                 ofTargetYear == SelectSeq(values, LAMBDA v : YearOf(v.date) = targetYear)
                 ytdStartValue == IF ofTargetYear = << >> \/ ofTargetYear[1].value = 0
                                  THEN startValue ELSE ofTargetYear[1].value
                 days == values[Len(values)].date - values[1].date
                 cagr == calculateCAGR(startValue, endValue, days)
                 volatility == calculateVolatility(dailyReturnsOf(values))
                 drawdown == calculateMaxDrawdown(values)
                 stats == calculateDailyStats(datedReturns(values))
             IN  [totalReturn |-> returnSince(startValue, endValue),
                  ytdReturn |-> returnSince(ytdStartValue, endValue),
                  cagr |-> cagr, volatility |-> volatility,
                  sharpeRatio |-> calculateSharpeRatio(cagr, volatility),
                  maxDrawdown |-> drawdown.maxDrawdown,
                  maxDrawdownPeriod |-> drawdown.period,
                  tradingDays |-> Len(values),
                  winRate |-> stats.winRate, bestDay |-> stats.bestDay,
                  worstDay |-> stats.worstDay]

----------------------------------------------------------------------------
(* The metrics of a stored series (SpecMetrics) *)

\* rows in a series
MaxSeries == 4
\* totals 1.00, 2.00 and 4.00
SeriesValues == {100, 200, 400}
\* no dailyReturn, 0.000000 and 1.000000
SeriesReturns == {None, Some(0), Some(ReturnScale)}

SeriesRow(userId, date, value, return) ==
    [userId |-> userId, date |-> date, twStockValue |-> value, usStockValue |-> 0,
     totalValue |-> value, usdToTwdRate |-> DefaultUsdToTwdRate,
     dailyReturn |-> return, cumulativeReturn |-> None]

\* the table of one user with a row on each of the days 1..n
Series(n, value, return) == {SeriesRow("u1", d, value[d], return[d]) : d \in 1..n}

\* a stored series with totals and returns out of the two sets
SeriesInit(values, returns) ==
    /\ transactions = EmptyTable
    /\ holdings = EmptyTable
    /\ nextId = 0
    /\ response = Responded("none", 0, 0)
    /\ \E n \in 0..MaxSeries :
           \E value \in [1..n -> values], return \in [1..n -> returns] :
               dailyNetValues = Series(n, value, return)
    /\ EnvInit
    /\ inflight = {}
    /\ hist = [ops |-> 0, batch |-> None]

MetricsInit == SeriesInit(SeriesValues, SeriesReturns)

\* the years a request names: those of the series, and the one after
Years == 1..(YearOf(MaxSeries) + 1)

\* GET of the metrics of the user, of all years or of one
GetPerformanceMetrics(userId, year) ==
    /\ response' = [op |-> "METRICS", status |-> 200, id |-> 0, year |-> year,
                    metrics |-> getUserPerformanceMetrics(dailyNetValues, userId, year,
                                                          YearOf(env.today))]
    /\ UNCHANGED <<transactions, holdings, nextId, hist, dailyNetValues, env, inflight>>

NextMetrics == \E u \in Users : GetPerformanceMetrics(u, None)

SpecMetrics == MetricsInit /\ [][NextMetrics]_vars

\* the metrics of one year or of all (SpecMetricsYear), over series of the
\* totals 1.00 and 2.00
NextMetricsYear ==
    \E u \in Users, year \in {None} \cup {Some(y) : y \in Years} :
        GetPerformanceMetrics(u, year)

SpecMetricsYear == SeriesInit({100, 200}, SeriesReturns) /\ [][NextMetricsYear]_vars

\* the user's rows the answered request is about, in date order: all, or
\* those of its year
Selected(userId) ==
    orderedByDate({row \in UserRows(dailyNetValues, userId) :
                      response.year = None \/ YearOf(row.date) = response.year[1]})

\* their totals
SeriesOf(userId) ==
    LET netValues == Selected(userId)
    IN  [i \in DOMAIN netValues |-> netValues[i].totalValue]

\* the running peak at position j and the drawdown there
PeakAt(v, j) == CHOOSE p \in {v[i] : i \in 1..j} : \A i \in 1..j : v[i] <= p
DrawdownAt(v, j) == Rat(PeakAt(v, j) - v[j], PeakAt(v, j))
\* the first position of the deepest drawdown
DeepestAt(v) ==
    CHOOSE j \in DOMAIN v :
        /\ \A k \in DOMAIN v : ~RatGreater(DrawdownAt(v, k), DrawdownAt(v, j))
        /\ \A k \in 1..(j - 1) : RatGreater(DrawdownAt(v, j), DrawdownAt(v, k))
\* the first position at which the running peak of position j was reached
PeakReachedAt(v, j) ==
    CHOOSE i \in 1..j : v[i] = PeakAt(v, j) /\ \A k \in 1..(i - 1) : v[k] # PeakAt(v, j)

\* C19: for a date-ordered series of at least two positive values,
\* calculateMaxDrawdown returns 100 * the greatest (P_j - v_j) / P_j with P_j
\* the greatest of v_1..v_j and, when that is > 0, the period from the date
\* the peak of the first such j was first reached to the date of that j; a
\* later equal drawdown does not replace it, and a series that never falls
\* has drawdown 0 and no period
C19_MaxDrawdownOfSeries ==
    (response.op = "METRICS" /\ Len(SeriesOf("u1")) >= 2) =>
        LET v == SeriesOf("u1")
            j == DeepestAt(v)
        IN  /\ response.metrics.maxDrawdown = RatMulInt(DrawdownAt(v, j), 100)
            /\ response.metrics.maxDrawdownPeriod =
                   IF RatPos(DrawdownAt(v, j))
                   THEN Some([start |-> Selected("u1")[PeakReachedAt(v, j)].date,
                              end |-> Selected("u1")[j].date])
                   ELSE None

\* the metrics of a series that falls by half from its first peak and later
\* by half again from a higher one: the period is that of the first fall
C19_Witness ==
    /\ response.op = "METRICS"
    /\ response.year = None
    /\ SeriesOf("u1") = <<200, 100, 400, 200>>
    /\ response.metrics.maxDrawdown = RatInt(50)
    /\ response.metrics.maxDrawdownPeriod = Some([start |-> 1, end |-> 2])

\* the rows of the user that carry a dailyReturn
WithReturn(userId) ==
    {i \in DOMAIN Selected(userId) : Selected(userId)[i].dailyReturn # None}

\* C20: for a series in which fewer than two rows carry a dailyReturn the
\* metrics have volatility 0 and sharpeRatio 0, whatever the totals
C20_NoVolatilityBelowTwoReturns ==
    (response.op = "METRICS" /\ Cardinality(WithReturn("u1")) < 2) =>
        /\ response.metrics.volatility = RatInt(0)
        /\ response.metrics.sharpeRatio.zero

\* the metrics of a growing series of three rows of which one carries a
\* dailyReturn
C20_Witness ==
    /\ response.op = "METRICS"
    /\ response.year = None
    /\ Cardinality(UserRows(dailyNetValues, "u1")) = 3
    /\ Cardinality(WithReturn("u1")) = 1
    /\ ~response.metrics.cagr.zero
    /\ response.metrics.volatility = RatInt(0)
    /\ response.metrics.sharpeRatio.zero


\* C21: when the rows selected for the user, all of them or those of the
\* requested year, are none, getUserPerformanceMetrics returns the empty
\* result: every number 0, tradingDays 0, no best or worst day, no drawdown
\* period; and with a year only the rows dated in that year are counted
C21_EmptySeriesGivesEmptyResult ==
    response.op = "METRICS" =>
        /\ response.metrics.tradingDays = Len(Selected("u1"))
        /\ Len(Selected("u1")) = 0 =>
               /\ response.metrics.totalReturn = RatInt(0)
               /\ response.metrics.ytdReturn = RatInt(0)
               /\ response.metrics.cagr.zero
               /\ response.metrics.volatility = RatInt(0)
               /\ response.metrics.sharpeRatio.zero
               /\ response.metrics.maxDrawdown = RatInt(0)
               /\ response.metrics.maxDrawdownPeriod = None
               /\ response.metrics.winRate = RatInt(0)
               /\ response.metrics.bestDay = None
               /\ response.metrics.worstDay = None

\* the metrics of a year the user has no row in, asked of a user who has
\* rows in the years before
C21_Witness ==
    /\ response.op = "METRICS"
    /\ response.year # None
    /\ Cardinality(UserRows(dailyNetValues, "u1")) = MaxSeries
    /\ Len(Selected("u1")) = 0
    /\ response.metrics.tradingDays = 0
    /\ response.metrics.bestDay = None


----------------------------------------------------------------------------
(* The USD -> TWD rate (SpecRate).  In these runs env is                   *)
(* [today, exchangeRates]: exchangeRates holds the USD -> TWD rows of      *)
(* exchange_rates, date -> rate in millionths (numeric(12,6)).  A source   *)
(* answers None (success: false) or Some([rate, date]), rate a number.     *)

\* scale of exchange_rates.rate: 6 fractional digits
RateScale == 1000000
\* rate.toString() written to the column, and parseFloat of the column
ToScale6(a) == ToFixed6(a)
FromScale6(m) == Rat(m, RateScale)

\* a number in the test position of an if
Truthy(opt) == opt # None /\ opt[1].n # 0

\* fetchLatestUSDToTWD: Yahoo Finance, then ExchangeRate-API, then the CBC
fetchLatestUSDToTWD(yahoo, erApi, cbc) ==
    IF yahoo # None THEN yahoo ELSE IF erApi # None THEN erApi ELSE cbc

\* getUSDToTWDRateByDate
getUSDToTWDRateByDate(rates, date) ==
    IF date \in DOMAIN rates THEN Some(FromScale6(rates[date])) ELSE None

\* getLatestUSDToTWDRate
getLatestUSDToTWDRate(rates) ==
    IF DOMAIN rates = {} THEN None
    ELSE LET latest == CHOOSE d \in DOMAIN rates : \A e \in DOMAIN rates : e <= d
         IN  Some(FromScale6(rates[latest]))

\* what the two inserts of updateExchangeRate do: "ok" both done, "first"
\* the USD -> TWD insert throws, "second" the TWD -> USD insert throws
SaveOutcomes == {"ok", "first", "second"}

\* updateExchangeRate: [success, rate, exchangeRates]
updateExchangeRate(rates, fetched, saveOutcome) ==
    IF fetched = None THEN [success |-> FALSE, rate |-> None, exchangeRates |-> rates]
    ELSE LET saved == Insert(rates, fetched[1].date, ToScale6(fetched[1].rate))
         IN  CASE saveOutcome = "ok" ->
                      [success |-> TRUE, rate |-> Some(fetched[1].rate),
                       exchangeRates |-> saved]
               [] saveOutcome = "first" ->
                      [success |-> FALSE, rate |-> None, exchangeRates |-> rates]
               [] saveOutcome = "second" ->
                      [success |-> FALSE, rate |-> None, exchangeRates |-> saved]

\* getUSDToTWDRate: [rate, exchangeRates]
getUSDToTWDRate(rates, today, fetched, saveOutcome) ==
    LET stored == getUSDToTWDRateByDate(rates, today)
        result == updateExchangeRate(rates, fetched, saveOutcome)
        latest == getLatestUSDToTWDRate(result.exchangeRates)
    IN  IF Truthy(stored) THEN [rate |-> stored[1], exchangeRates |-> rates]
        ELSE IF result.success /\ Truthy(result.rate)
        THEN [rate |-> result.rate[1], exchangeRates |-> result.exchangeRates]
        ELSE IF Truthy(latest)
        THEN [rate |-> latest[1], exchangeRates |-> result.exchangeRates]
        ELSE [rate |-> RatInt(DefaultUsdToTwdRate), exchangeRates |-> result.exchangeRates]

\* the days of the runs, and the rates a source quotes: 31.5 and 33.0000005
MaxRateDay == 3
SourceRates == {Rat(63, 2), Rat(66000001, 2000000)}
\* the answers of a source on `today`; the CBC answer is always dated today
SourceAnswers(today, dates) ==
    {None} \cup {Some([rate |-> r, date |-> d]) : r \in SourceRates, d \in dates}

\* one call of getUSDToTWDRate; the response keeps what the call saw
GetRate(yahoo, erApi, cbc, saveOutcome) ==
    LET fetched == fetchLatestUSDToTWD(yahoo, erApi, cbc)
        got == getUSDToTWDRate(env.exchangeRates, env.today, fetched, saveOutcome)
    IN  /\ response' = [op |-> "RATE", status |-> 200, id |-> 0,
                        rate |-> got.rate,
                        storedToday |-> getUSDToTWDRateByDate(env.exchangeRates, env.today),
                        fetched |-> fetched,
                        latest |-> getLatestUSDToTWDRate(env.exchangeRates)]
        /\ env' = [env EXCEPT !.exchangeRates = got.exchangeRates]
        /\ UNCHANGED <<transactions, holdings, nextId, hist, dailyNetValues, inflight>>

\* midnight
NextRateDay ==
    /\ env.today < MaxRateDay
    /\ env' = [env EXCEPT !.today = @ + 1]
    /\ UNCHANGED <<transactions, holdings, nextId, response, hist, dailyNetValues, inflight>>

RateInit ==
    /\ transactions = EmptyTable
    /\ holdings = EmptyTable
    /\ nextId = 0
    /\ response = Responded("none", 0, 0)
    /\ hist = [ops |-> 0, undo |-> None]
    /\ dailyNetValues = {}
    /\ env = [today |-> FirstDay, exchangeRates |-> EmptyTable]
    /\ inflight = {}

NextRate ==
    \/ \E yahoo \in SourceAnswers(env.today, 1..env.today),
          erApi \in SourceAnswers(env.today, 1..env.today),
          cbc \in SourceAnswers(env.today, {env.today}),
          saveOutcome \in SaveOutcomes : GetRate(yahoo, erApi, cbc, saveOutcome)
    \/ NextRateDay

SpecRate == RateInit /\ [][NextRate]_vars

\* C22: getUSDToTWDRate returns a positive rate, chosen in this order: the
\* rate stored for today; else the fetched rate when a source succeeded;
\* else the most recent stored rate; else, and only then, 32.0
C22_RateByPrecedence ==
    response.op = "RATE" =>
        /\ RatPos(response.rate)
        /\ response.rate =
               IF response.storedToday # None THEN response.storedToday[1]
               ELSE IF response.fetched # None THEN response.fetched[1].rate
               ELSE IF response.latest # None THEN response.latest[1]
               ELSE RatInt(DefaultUsdToTwdRate)


----------------------------------------------------------------------------
(* Two users on one store (SpecIsolation).  hist keeps the number of       *)
(* requests and the user of the last one.                                  *)

\* requests in a run
MaxIsolationOps == 4
IsolationData == TradeData({"TW:2330"}, Quantities, {100000}, {1}, {<<None, None>>})
IsolationBodies ==
    {NoBody} \cup {[NoBody EXCEPT !.quantity = Some(q)] : q \in Quantities}

\* GET /api/transactions/[id]: the status
GET(txs, id, userId) == IF findOwned(txs, id, userId) = None THEN 404 ELSE 200

Acted(userId) ==
    /\ hist.ops < MaxIsolationOps
    /\ hist' = [ops |-> hist.ops + 1, undo |-> None, actor |-> userId]

IsolationCreate(userId, data) == Acted(userId) /\ CreateTrade(userId, data)
IsolationEdit(userId, id, body) == Acted(userId) /\ EditTrade(userId, id, body)
IsolationDelete(userId, id) == Acted(userId) /\ DeleteTrade(userId, id)
IsolationRecalculate(userId) == Acted(userId) /\ RecalculateHoldings(userId)

IsolationGet(userId, id) ==
    /\ Acted(userId)
    /\ response' = Responded("GET", GET(transactions, id, userId), id)
    /\ UNCHANGED <<transactions, holdings, nextId, dailyNetValues, env, inflight>>

\* the turn of one user in the snapshot batch
IsolationSnapshot(userId) ==
    /\ Acted(userId)
    /\ dailyNetValues' = snapshotStep(holdings, dailyNetValues, userId, env)
    /\ response' = Responded("SNAPSHOT", 200, 0)
    /\ UNCHANGED <<transactions, holdings, nextId, env, inflight>>

IsolationInit == LedgerInit /\ hist = [ops |-> 0, undo |-> None, actor |-> "none"]

NextIsolation ==
    \/ \E u \in SnapshotUsers, data \in IsolationData : IsolationCreate(u, data)
    \/ \E u \in SnapshotUsers, id \in 1..MaxTx, body \in IsolationBodies :
           IsolationEdit(u, id, body)
    \/ \E u \in SnapshotUsers, id \in 1..MaxTx : IsolationDelete(u, id)
    \/ \E u \in SnapshotUsers, id \in 1..MaxTx : IsolationGet(u, id)
    \/ \E u \in SnapshotUsers : IsolationRecalculate(u)
    \/ \E u \in SnapshotUsers : IsolationSnapshot(u)

SpecIsolation == IsolationInit /\ [][NextIsolation]_vars

\* the trade, holding and snapshot rows of a user
OwnedBy(userId) ==
    <<{<<id, transactions[id]>> : id \in {i \in DOMAIN transactions :
                                             transactions[i].userId = userId}},
      {<<key, holdings[key]>> : key \in {k \in DOMAIN holdings : k[1] = userId}},
      UserRows(dailyNetValues, userId)>>

\* the request just answered named a trade of another user
ForeignRequest ==
    /\ response'.op \in {"GET", "PUT", "DELETE"}
    /\ response'.id \in DOMAIN transactions
    /\ transactions[response'.id].userId # hist'.actor

\* C23: a request of one user leaves the trade, holding and snapshot rows of
\* every other user as they were, and a GET, PUT or DELETE that names a
\* trade of another user is answered 404 and changes no row
C23_OtherUsersUntouched ==
    [][/\ \A other \in SnapshotUsers \ {hist'.actor} : OwnedBy(other)' = OwnedBy(other)
       /\ ForeignRequest =>
              /\ response'.status = 404
              /\ UNCHANGED <<transactions, holdings, dailyNetValues>>]_vars

\* u1 asked to edit the trade of u2 while both users held rows
C23_Witness ==
    /\ hist.actor = "u1"
    /\ response.op = "PUT"
    /\ response.status = 404
    /\ response.id \in DOMAIN transactions
    /\ transactions[response.id].userId = "u2"
    /\ \A u \in SnapshotUsers : OwnedBy(u)[2] # {} /\ OwnedBy(u)[3] # {}


----------------------------------------------------------------------------
(* Edits that change no field of the trade (Spec) *)

\* C24: an edit whose body changes none of type, quantity, price, brokerFee
\* and tax leaves the holdings and the brokerFee, tax and totalAmount of the
\* trade as they were
C24_EmptyEditChangesNothing ==
    [][\A u \in Users, id \in 1..MaxTx :
           (EditTrade(u, id, NoBody) /\ response'.status = 200) =>
               /\ holdings' = holdings
               /\ transactions'[id].brokerFee = transactions[id].brokerFee
               /\ transactions'[id].tax = transactions[id].tax
               /\ transactions'[id].totalAmount = transactions[id].totalAmount]_vars


----------------------------------------------------------------------------
(* Fees and taxes of created and edited trades (SpecFees).  hist keeps the *)
(* number of requests and the brokerFee and tax of the last body.          *)

\* requests in a run
MaxFeeOps == 3
\* no amount, 0.00 and 1.50, in cents
FeeInputs == {None, Some(0), Some(150)}
\* 1 or 20 shares at 12.50
FeeData == TradeData(StockIds, {1, 20}, {125000}, {1}, FeeInputs \X FeeInputs)
FeeBodies == {[NoBody EXCEPT !.brokerFee = f[1], !.tax = f[2]] : f \in FeeInputs \X FeeInputs}

FeeAsked(body) ==
    /\ hist.ops < MaxFeeOps
    /\ hist' = [ops |-> hist.ops + 1, undo |-> None,
                brokerFee |-> body.brokerFee, tax |-> body.tax]

FeeCreate(userId, data) == FeeAsked(data) /\ CreateTrade(userId, data)
FeeEdit(userId, id, body) == FeeAsked(body) /\ EditTrade(userId, id, body)

FeeInit == LedgerInit /\ hist = [ops |-> 0, undo |-> None, brokerFee |-> None, tax |-> None]

NextFees ==
    \/ \E u \in Users, data \in FeeData : FeeCreate(u, data)
    \/ \E u \in Users, id \in 1..MaxTx, body \in FeeBodies : FeeEdit(u, id, body)

SpecFees == FeeInit /\ [][NextFees]_vars

\* C25: the trade a create or an edit stored carries the supplied brokerFee
\* and tax, 0 included; with none supplied, a TW trade carries the fee
\* max(round(gross * 0.001425), 20) and, when a SELL, the tax
\* round(gross * 0.003), and any other trade carries 0
C25_FeesAutoOrAsSupplied ==
    (response.op \in {"POST", "PUT"} /\ response.status = 200) =>
        LET row == transactions[response.id]
            gross == row.quantity * row.price
            tw == Market(row.stockId) = "TW"
        IN  /\ row.brokerFee =
                   IF hist.brokerFee # None THEN hist.brokerFee[1]
                   ELSE IF tw
                   THEN Max(MathRoundRate(gross, BrokerFeeRateNum, BrokerFeeRateDen),
                            MinBrokerFee) * CentScale
                   ELSE 0
            /\ row.tax =
                   IF hist.tax # None THEN hist.tax[1]
                   ELSE IF tw /\ row.type = "SELL"
                   THEN MathRoundRate(gross, SellTaxRateNum, SellTaxRateDen) * CentScale
                   ELSE 0


----------------------------------------------------------------------------
(* The scheduler's task log (SpecScheduler, lib/cron/scheduler.ts).  In    *)
(* these runs env is [taskLogs], inflight the calls of callAPI that wait   *)
(* for their fetch, and hist keeps the number of calls started and every   *)
(* log entry in the order the calls completed.                             *)

\* entries taskLogs keeps
TaskLogLimit == 100
\* calls of a run after the earlier ones, and calls that may overlap
MaxCalls == 3
Endpoints == {"/api/cron/update-prices", "/api/cron/update-rates", "/api/cron/snapshot-values"}
\* the fetch answers ok with success: true, or answers otherwise, or throws
CallOutcomes == {"success", "failure", "throw"}

\* the entry of a call when it ends
taskLog(call, outcome) ==
    [call |-> call.call, task |-> call.task, success |-> outcome = "success",
     error |-> outcome # "success"]

\* a finally block that drops the new entry of a full log
callAPIFinallyDropsNewest(taskLogs, log) ==
    IF Len(taskLogs) >= TaskLogLimit THEN taskLogs ELSE Append(taskLogs, log)

\* the finally block of callAPI: push, then shift when over the limit
callAPIFinally(taskLogs, log) ==
    LET pushed == Append(taskLogs, log)
    IN  IF Len(pushed) > TaskLogLimit THEN Tail(pushed) ELSE pushed

\* callAPI up to its fetch
BeginCall(endpoint) ==
    /\ hist.ops < hist.earlier + MaxCalls
    /\ Cardinality(inflight) < MaxInflight
    /\ inflight' = inflight \cup {[call |-> hist.ops + 1, task |-> endpoint]}
    /\ hist' = [hist EXCEPT !.ops = @ + 1]
    /\ UNCHANGED <<transactions, holdings, nextId, response, dailyNetValues, env>>

\* callAPI from the answer of its fetch to its return
FinishCall(call, outcome) ==
    LET log == taskLog(call, outcome)
    IN  /\ inflight' = inflight \ {call}
        /\ env' = [env EXCEPT !.taskLogs = callAPIFinally(@, log)]
        /\ hist' = [hist EXCEPT !.completed = Append(@, log)]
        /\ response' = [op |-> "CALL", status |-> 200, id |-> call.call,
                        success |-> log.success]
        /\ UNCHANGED <<transactions, holdings, nextId, dailyNetValues>>

\* the log after `n` calls made one after the other, all answered well
EarlierLogs(n) ==
    [i \in 1..n |-> taskLog([call |-> i, task |-> "/api/cron/update-rates"], "success")]

SchedulerInit ==
    /\ transactions = EmptyTable
    /\ holdings = EmptyTable
    /\ nextId = 0
    /\ response = Responded("none", 0, 0)
    /\ dailyNetValues = {}
    /\ inflight = {}
    /\ \E n \in {0, TaskLogLimit - 2, TaskLogLimit - 1, TaskLogLimit} :
           /\ env = [taskLogs |-> EarlierLogs(n)]
           /\ hist = [ops |-> n, undo |-> None, earlier |-> n, completed |-> EarlierLogs(n)]

NextScheduler ==
    \/ \E endpoint \in Endpoints : BeginCall(endpoint)
    \/ \E call \in inflight, outcome \in CallOutcomes : FinishCall(call, outcome)

SpecScheduler == SchedulerInit /\ [][NextScheduler]_vars

\* C26: taskLogs never holds more than 100 entries, every call that
\* completed added one entry, and the entries kept are those of the calls
\* completed last, in the order they completed
C26_TaskLogsKeepLatest ==
    LET kept == Len(env.taskLogs)
        done == Len(hist.completed)
    IN  /\ kept <= TaskLogLimit
        /\ done = hist.ops - Cardinality(inflight)
        /\ kept = IF done < TaskLogLimit THEN done ELSE TaskLogLimit
        /\ \A i \in 1..kept : env.taskLogs[i] = hist.completed[done - kept + i]

\* a full log that has dropped entries and holds a failed call that
\* completed before a call started earlier
C26_Witness ==
    /\ Len(env.taskLogs) = TaskLogLimit
    /\ Len(hist.completed) > TaskLogLimit
    /\ \E i \in 1..(TaskLogLimit - 1) :
           /\ env.taskLogs[i].call > env.taskLogs[i + 1].call
           /\ ~env.taskLogs[i].success


----------------------------------------------------------------------------
(* The three cron routes (SpecCron).  In these runs env is                 *)
(* [today, prices, rate, exchangeRates, secret], secret the value of       *)
(* CRON_SECRET (None: not set), and hist keeps the number of steps, the    *)
(* kind of the last one and the Authorization header of the last request.  *)

\* steps of a run
MaxCronOps == 3
CronSecret == "s3cret"
\* CRON_SECRET: not set, empty, set
CronSecrets == {None, Some(""), Some(CronSecret)}
\* request.headers.get('authorization'): None is null
AuthHeaders ==
    {None, Some("Bearer " \o CronSecret), Some("Bearer "), Some(CronSecret),
     Some("bearer " \o CronSecret), Some("Bearer " \o CronSecret \o "x")}

\* a check that lets every request through
cronAuthorizedAlways(secret, authHeader) == TRUE

\* the test that opens each of the three POST handlers
cronAuthorized(secret, authHeader) ==
    IF secret # None /\ secret[1] # ""
    THEN authHeader = Some("Bearer " \o secret[1])
    ELSE TRUE

\* the headers callAPI of the scheduler sends
callAPIHeader(secret) ==
    IF secret # None /\ secret[1] # "" THEN Some("Bearer " \o secret[1]) ELSE None

\* updateAllUserStockPrices: the closes fetched become the latest rows
updateAllUserStockPrices(prices, closes) ==
    [s \in DOMAIN prices |-> IF closes[s] # None THEN closes[s] ELSE prices[s]]

CronStepped(step, authHeader) ==
    /\ hist.ops < MaxCronOps
    /\ hist' = [ops |-> hist.ops + 1, undo |-> None, step |-> step, header |-> authHeader]

CronAnswer(endpoint, status) ==
    [op |-> "CRON", status |-> status, id |-> 0, endpoint |-> endpoint]

Unauthorized(endpoint) ==
    /\ response' = CronAnswer(endpoint, 401)
    /\ UNCHANGED <<transactions, holdings, nextId, dailyNetValues, env, inflight>>

\* POST /api/cron/update-prices
CronUpdatePrices(authHeader, closes) ==
    /\ CronStepped("cron", authHeader)
    /\ IF ~cronAuthorized(env.secret, authHeader)
       THEN Unauthorized("/api/cron/update-prices")
       ELSE /\ env' = [env EXCEPT !.prices = updateAllUserStockPrices(@, closes)]
            /\ response' = CronAnswer("/api/cron/update-prices", 200)
            /\ UNCHANGED <<transactions, holdings, nextId, dailyNetValues, inflight>>

\* POST /api/cron/update-rates
CronUpdateRates(authHeader, fetched, saveOutcome) ==
    /\ CronStepped("cron", authHeader)
    /\ IF ~cronAuthorized(env.secret, authHeader)
       THEN Unauthorized("/api/cron/update-rates")
       ELSE LET result == updateExchangeRate(env.exchangeRates, fetched, saveOutcome)
            IN  /\ env' = [env EXCEPT !.exchangeRates = result.exchangeRates]
                /\ response' = CronAnswer("/api/cron/update-rates",
                                          IF result.success THEN 200 ELSE 500)
                /\ UNCHANGED <<transactions, holdings, nextId, dailyNetValues, inflight>>

\* POST /api/cron/snapshot-values
CronSnapshotValues(authHeader) ==
    /\ CronStepped("cron", authHeader)
    /\ IF ~cronAuthorized(env.secret, authHeader)
       THEN Unauthorized("/api/cron/snapshot-values")
       ELSE LET result == snapshotAllUserNetValues(holdings, dailyNetValues, env,
                                                   [u \in SnapshotUsers |-> "ok"], FALSE)
            IN  /\ dailyNetValues' = result.dnv
                /\ response' = CronAnswer("/api/cron/snapshot-values", 200)
                /\ UNCHANGED <<transactions, holdings, nextId, env, inflight>>

CronTrade(userId, data) == CronStepped("trade", None) /\ CreateTrade(userId, data)

CronNextDay ==
    /\ CronStepped("day", None)
    /\ env.today < MaxDay
    /\ env' = [env EXCEPT !.today = @ + 1]
    /\ UNCHANGED <<transactions, holdings, nextId, response, dailyNetValues, inflight>>

CronInit ==
    /\ transactions = EmptyTable
    /\ holdings = EmptyTable
    /\ nextId = 0
    /\ response = Responded("none", 0, 0)
    /\ dailyNetValues = {}
    /\ inflight = {}
    /\ hist = [ops |-> 0, undo |-> None, step |-> "none", header |-> None]
    /\ \E secret \in CronSecrets :
           env = [today |-> FirstDay, prices |-> NoPrices, rate |-> DefaultUsdToTwdRate,
                  exchangeRates |-> EmptyTable, secret |-> secret]

NextCron ==
    \/ \E authHeader \in AuthHeaders \cup {callAPIHeader(env.secret)}, close \in Closes :
           CronUpdatePrices(authHeader, [NoPrices EXCEPT !["TW:2330"] = Some(close)])
    \/ \E authHeader \in AuthHeaders \cup {callAPIHeader(env.secret)},
          fetched \in SourceAnswers(env.today, {env.today}),
          saveOutcome \in SaveOutcomes :
           CronUpdateRates(authHeader, fetched, saveOutcome)
    \/ \E authHeader \in AuthHeaders \cup {callAPIHeader(env.secret)} :
           CronSnapshotValues(authHeader)
    \/ \E u \in SnapshotUsers, data \in SnapshotData : CronTrade(u, data)
    \/ CronNextDay

SpecCron == CronInit /\ [][NextCron]_vars

\* C27: with CRON_SECRET set, a POST to one of the three cron routes whose
\* Authorization header is not 'Bearer <CRON_SECRET>' is answered 401 and
\* changes no price, no rate and no snapshot
C27_CronNeedsBearer ==
    [][(/\ hist'.step = "cron"
        /\ env.secret # None
        /\ env.secret[1] # ""
        /\ hist'.header # Some("Bearer " \o env.secret[1]))
       => /\ response'.status = 401
          /\ UNCHANGED <<transactions, holdings, dailyNetValues, env>>]_vars

\* the snapshot route refused a request with another token on a day with
\* holdings and no snapshot
C27_Witness ==
    /\ hist.step = "cron"
    /\ env.secret = Some(CronSecret)
    /\ hist.header = Some("Bearer " \o CronSecret \o "x")
    /\ response.endpoint = "/api/cron/snapshot-values"
    /\ response.status = 401
    /\ holdings # EmptyTable
    /\ \A row \in dailyNetValues : row.date # env.today


----------------------------------------------------------------------------
(* The yearly backfill of snapshots (SpecBackfill, POST                    *)
(* /api/admin/backfill-snapshots).  `quotes` is what the price source      *)
(* returns for the year: stock -> date -> close (None: no quote that day). *)
(* In these runs env is [today, prices, rate, stockPrices], stockPrices    *)
(* the rows of stock_prices, <<stockId, date>> -> close.  totalCost of the *)
(* handler's DailyHolding is never read and is left out.                   *)

\* the calendar days of the runs: two years
BackfillDays == 1..(2 * DaysPerYear)
DaysOfYear(year) == {d \in BackfillDays : YearOf(d) = year}

\* the quantity of a DailyHolding after one trade
backfillApply(quantity, tx) ==
    IF tx.type = "BUY" THEN quantity + tx.quantity ELSE quantity - tx.quantity

\* the trades of `ids`, in order, applied to the map stockId -> quantity
RECURSIVE backfillFold(_, _, _)
backfillFold(quantities, txs, ids) ==
    IF ids = << >> THEN quantities
    ELSE LET tx == txs[Head(ids)]
         IN  backfillFold([s \in DOMAIN quantities |->
                              IF s = tx.stockId THEN backfillApply(quantities[s], tx)
                              ELSE quantities[s]],
                          txs, Tail(ids))

\* the dates of the year with a quote of some traded stock, ascending
sortedDates(quotes, stockSymbols, year) ==
    LET allDates == {d \in DaysOfYear(year) : \E s \in stockSymbols : quotes[s][d] # None}
    IN  SortSeq(CHOOSE seq \in [1..Cardinality(allDates) -> allDates] :
                    \A i, j \in DOMAIN seq : i # j => seq[i] # seq[j],
                LAMBDA a, b : a < b)

\* the value of the holdings of one market on `date`, in ticks
RECURSIVE backfillValue(_, _, _, _, _)
backfillValue(current, stockIds, market, quotes, date) ==
    IF stockIds = {} THEN 0
    ELSE LET s == CHOOSE x \in stockIds : TRUE
             price == quotes[s][date]
             value == IF current[s] <= 0 \/ Market(s) # market \/ price = None
                      THEN 0
                      ELSE price[1] * current[s]
         IN  value + backfillValue(current, stockIds \ {s}, market, quotes, date)

\* one turn of the loop over sortedDates with the trades of that day only
backfillDay(acc, txs, yearIds, userId, quotes, stockSymbols, rate, date) ==
    LET dayTransactions == SelectSeq(yearIds, LAMBDA id : txs[id].transactionDate = date)
        current == backfillFold(acc.current, txs, dayTransactions)
        twStockValue == backfillValue(current, stockSymbols, "TW", quotes, date)
        usStockValue == backfillValue(current, stockSymbols, "US", quotes, date)
        totalValue == twStockValue + usStockValue * rate
        dailyReturn ==
            IF acc.previousTotalValue # None /\ acc.previousTotalValue[1] > 0
            THEN Some(Rat(totalValue - acc.previousTotalValue[1], acc.previousTotalValue[1]))
            ELSE None
        cumulativeReturn ==
            IF acc.firstTotalValue # None /\ acc.firstTotalValue[1] > 0
            THEN Some(Rat(totalValue - acc.firstTotalValue[1], acc.firstTotalValue[1]))
            ELSE None
        valued == [date |-> date, current |-> current, totalValue |-> totalValue]
    IN  IF totalValue > 0
        THEN [current |-> current,
              previousTotalValue |-> Some(totalValue),
              firstTotalValue |-> IF acc.firstTotalValue = None THEN Some(totalValue)
                                  ELSE acc.firstTotalValue,
              dnv |-> saveUserNetValue(acc.dnv,
                          [userId |-> userId, date |-> date,
                           twStockValue |-> RatInt(twStockValue),
                           usStockValue |-> RatInt(usStockValue),
                           totalValueTWD |-> RatInt(totalValue),
                           usdToTwdRate |-> rate,
                           dailyReturn |-> dailyReturn,
                           cumulativeReturn |-> cumulativeReturn]),
              snapshotsCreated |-> acc.snapshotsCreated + 1,
              days |-> Append(acc.days, valued)]
        ELSE [acc EXCEPT !.current = current, !.days = Append(@, valued)]

RECURSIVE backfillLoop(_, _, _, _, _, _, _, _)
backfillLoop(acc, txs, yearIds, userId, quotes, stockSymbols, rate, dates) ==
    IF dates = << >> THEN acc
    ELSE backfillLoop(backfillDay(acc, txs, yearIds, userId, quotes, stockSymbols, rate,
                                  Head(dates)),
                      txs, yearIds, userId, quotes, stockSymbols, rate, Tail(dates))

\* the rows the handler adds to stock_prices: those not there yet
backfillPrices(stockPrices, quotes, stockSymbols, year) ==
    LET new == {<<s, d>> : s \in stockSymbols, d \in DaysOfYear(year)}
        keys == DOMAIN stockPrices \cup {k \in new : quotes[k[1]][k[2]] # None}
    IN  [k \in keys |-> IF k \in DOMAIN stockPrices THEN stockPrices[k]
                        ELSE quotes[k[1]][k[2]][1]]

\* the close of the latest stock_prices row of each stock
latestPrices(stockPrices) ==
    [s \in StockIds |->
        LET dates == {k[2] : k \in {x \in DOMAIN stockPrices : x[1] = s}}
        IN  IF dates = {} THEN None
            ELSE Some(stockPrices[<<s, CHOOSE d \in dates : \A e \in dates : e <= d>>])]

\* POST /api/admin/backfill-snapshots: [success, dnv, stockPrices, days,
\* snapshotsCreated]; days is the holdings each date was valued with
backfill(txs, dnv, stockPrices, userId, year, quotes, rate) ==
    LET owned == {id \in DOMAIN txs : txs[id].userId = userId}
        yearIds == SortIds(txs, {id \in owned : YearOf(txs[id].transactionDate) = year})
        earlierIds == SortIds(txs, {id \in owned : YearOf(txs[id].transactionDate) < year})
        stockSymbols == {txs[yearIds[i]].stockId : i \in DOMAIN yearIds}
        initialHoldings == backfillFold([s \in StockIds |-> 0], txs, earlierIds)
        acc == backfillLoop([current |-> initialHoldings, previousTotalValue |-> None,
                             firstTotalValue |-> None, dnv |-> dnv,
                             snapshotsCreated |-> 0, days |-> << >>],
                            txs, yearIds, userId, quotes, stockSymbols, rate,
                            sortedDates(quotes, stockSymbols, year))
    IN  IF yearIds = << >>
        THEN [success |-> FALSE, dnv |-> dnv, stockPrices |-> stockPrices,
              days |-> << >>, snapshotsCreated |-> 0]
        ELSE [success |-> TRUE, dnv |-> acc.dnv,
              stockPrices |-> backfillPrices(stockPrices, quotes, stockSymbols, year),
              days |-> acc.days, snapshotsCreated |-> acc.snapshotsCreated]

\* requests in a run
MaxBackfillOps == 3
BackfillData == TradeData({"TW:2330"}, {1, 2}, {100000}, BackfillDays, {<<None, None>>})
\* a source with no quote for the other stock
BackfillQuotes(year) ==
    {[s \in StockIds |-> IF s = "TW:2330" THEN q ELSE [d \in DaysOfYear(year) |-> None]] :
        q \in [DaysOfYear(year) -> {None, Some(110000)}]}

BackfillStepped ==
    /\ hist.ops < MaxBackfillOps
    /\ hist' = [ops |-> hist.ops + 1, undo |-> None]

BackfillTrade(userId, data) == BackfillStepped /\ CreateTrade(userId, data)

BackfillSnapshots(userId, year, quotes) ==
    LET result == backfill(transactions, dailyNetValues, env.stockPrices, userId, year,
                           quotes, env.rate)
    IN  /\ BackfillStepped
        /\ dailyNetValues' = result.dnv
        /\ env' = [env EXCEPT !.stockPrices = result.stockPrices,
                              !.prices = latestPrices(result.stockPrices)]
        /\ response' = [op |-> "BACKFILL", status |-> 200, id |-> 0, userId |-> userId,
                        success |-> result.success, days |-> result.days,
                        snapshotsCreated |-> result.snapshotsCreated]
        /\ UNCHANGED <<transactions, holdings, nextId, inflight>>

BackfillInit ==
    /\ transactions = EmptyTable
    /\ holdings = EmptyTable
    /\ nextId = 0
    /\ response = Responded("none", 0, 0)
    /\ dailyNetValues = {}
    /\ inflight = {}
    /\ hist = [ops |-> 0, undo |-> None]
    /\ env = [today |-> Cardinality(BackfillDays), prices |-> NoPrices,
              rate |-> DefaultUsdToTwdRate, stockPrices |-> EmptyTable]

NextBackfill ==
    \/ \E u \in Users, data \in BackfillData : BackfillTrade(u, data)
    \/ \E u \in Users, year \in {YearOf(d) : d \in BackfillDays} :
           \E quotes \in BackfillQuotes(year) : BackfillSnapshots(u, year, quotes)

SpecBackfill == BackfillInit /\ [][NextBackfill]_vars

\* the shares of the stock the trades of the user dated up to `date` leave
RECURSIVE SharesUpTo(_, _, _, _)
SharesUpTo(ids, userId, stockId, date) ==
    IF ids = {} THEN 0
    ELSE LET id == CHOOSE x \in ids : TRUE
             tx == transactions[id]
             counted == tx.userId = userId /\ tx.stockId = stockId
                            /\ tx.transactionDate <= date
         IN  (IF ~counted THEN 0
              ELSE IF tx.type = "BUY" THEN tx.quantity ELSE -tx.quantity)
             + SharesUpTo(ids \ {id}, userId, stockId, date)

\* C28: the holdings the backfill values a date with hold every trade of the
\* user dated on or before that date, also a trade dated on a day with no
\* price observation
C28_BackfillCountsEveryTrade ==
    response.op = "BACKFILL" =>
        \A i \in DOMAIN response.days, s \in StockIds :
            response.days[i].current[s] =
                SharesUpTo(DOMAIN transactions, response.userId, s, response.days[i].date)


----------------------------------------------------------------------------
(* The PullToRefresh component (SpecPull).  In these runs env is           *)
(* [rendered, state, startY, currentY]: `state` is the React state with    *)
(* every update made so far, `rendered` the state of the last render, the  *)
(* one the subscribed handlers have closed over; startY and currentY are   *)
(* the refs.  inflight holds the calls of handleRefresh that wait for      *)
(* their refresh, hist the number of events, the last one and the number   *)
(* of refreshes started.                                                   *)

\* the default of the prop
threshold == 60
\* events in a run, and refreshes started in a run
MaxPullEvents == 6
MaxRefreshes == 2
\* clientY of a touch
TouchYs == {0, 100, 120, 400}

Min(a, b) == IF a <= b THEN a ELSE b

PullStepped(event, started) ==
    /\ hist.ops < MaxPullEvents
    /\ hist' = [ops |-> hist.ops + 1, undo |-> None, last |-> event,
                started |-> hist.started + started]

\* handleTouchStart; `atTop`: the page is scrolled to its top
handleTouchStart(clientY, atTop) ==
    /\ PullStepped("touchstart", 0)
    /\ IF env.rendered.isRefreshing \/ ~atTop
       THEN UNCHANGED env
       ELSE env' = [env EXCEPT !.startY = clientY, !.state.isPulling = TRUE]
    /\ UNCHANGED <<transactions, holdings, nextId, response, dailyNetValues, inflight>>

\* handleTouchMove
handleTouchMove(clientY, atTop) ==
    LET diff == clientY - env.startY
        distance == Min(diff \div 2, (threshold * 18) \div 10)
    IN  /\ PullStepped("touchmove", 0)
        /\ IF ~env.rendered.isPulling \/ env.rendered.isRefreshing
           THEN UNCHANGED env
           ELSE IF ~atTop
           THEN env' = [env EXCEPT !.state.pullDistance = 0]
           ELSE IF diff > 0
           THEN env' = [env EXCEPT !.currentY = clientY, !.state.pullDistance = distance]
           ELSE env' = [env EXCEPT !.currentY = clientY]
        /\ UNCHANGED <<transactions, holdings, nextId, response, dailyNetValues, inflight>>

\* handleTouchEnd, with the synchronous start of handleRefresh
handleTouchEnd ==
    LET starts == /\ env.rendered.isPulling
                  /\ env.rendered.pullDistance >= threshold
                  /\ ~env.rendered.isRefreshing
    IN  /\ starts => hist.started < MaxRefreshes
        /\ PullStepped("touchend", IF starts THEN 1 ELSE 0)
        /\ IF ~env.rendered.isPulling
           THEN UNCHANGED <<env, inflight>>
           ELSE IF starts
           THEN /\ env' = [env EXCEPT !.state.isPulling = FALSE,
                                      !.state.isRefreshing = TRUE]
                /\ inflight' = inflight \cup {hist.started + 1}
           ELSE /\ env' = [env EXCEPT !.state.isPulling = FALSE,
                                      !.state.pullDistance = 0]
                /\ UNCHANGED inflight
        /\ UNCHANGED <<transactions, holdings, nextId, response, dailyNetValues>>

\* handleRefresh from the end of its refresh, fulfilled or rejected
handleRefreshSettles(refresh) ==
    /\ PullStepped("settle", 0)
    /\ inflight' = inflight \ {refresh}
    /\ env' = [env EXCEPT !.state.isRefreshing = FALSE, !.state.pullDistance = 0]
    /\ UNCHANGED <<transactions, holdings, nextId, response, dailyNetValues>>

\* a render with its effect: the handlers of the new state are subscribed
Render ==
    /\ env.rendered # env.state
    /\ env' = [env EXCEPT !.rendered = env.state]
    /\ UNCHANGED <<transactions, holdings, nextId, response, hist, dailyNetValues, inflight>>

PullInit ==
    /\ transactions = EmptyTable
    /\ holdings = EmptyTable
    /\ nextId = 0
    /\ response = Responded("none", 0, 0)
    /\ dailyNetValues = {}
    /\ inflight = {}
    /\ hist = [ops |-> 0, undo |-> None, last |-> "none", started |-> 0]
    /\ LET mounted == [pullDistance |-> 0, isRefreshing |-> FALSE, isPulling |-> FALSE]
       IN  env = [rendered |-> mounted, state |-> mounted, startY |-> 0, currentY |-> 0]

NextPull ==
    \/ \E clientY \in TouchYs, atTop \in BOOLEAN : handleTouchStart(clientY, atTop)
    \/ \E clientY \in TouchYs, atTop \in BOOLEAN : handleTouchMove(clientY, atTop)
    \/ handleTouchEnd
    \/ \E refresh \in inflight : handleRefreshSettles(refresh)
    \/ Render

SpecPull == PullInit /\ [][NextPull]_vars

\* C29: at most one refresh is in flight, also when several touchend events
\* come before the next render; a refresh has started only on a release at
\* pullDistance >= threshold; and when a refresh has settled isRefreshing is
\* false and pullDistance is 0
C29_OneRefreshInFlight ==
    /\ Cardinality(inflight) <= 1
    /\ (hist.last = "touchend" /\ env.state.isRefreshing) =>
           env.rendered.pullDistance >= threshold
    /\ hist.last = "settle" => ~env.state.isRefreshing /\ env.state.pullDistance = 0


----------------------------------------------------------------------------
(* Trades whose snapshot step goes wrong (SpecStep).  `outcome` is what    *)
(* happens in the step: nothing wrong, a store read of                     *)
(* calculateUserNetValue throws (it returns null), or the write of         *)
(* saveUserNetValue throws.  hist keeps the number of requests and, of the *)
(* last one, the user, the outcome, the tables the handler had written     *)
(* when it reached the step and the snapshots before it.                   *)

\* a snapshot step with no try around it: the error of the write reaches
\* the catch of the handler
tradeSnapshotUncaught(r, dnv, userId, ctx, outcome) ==
    LET netValue == IF outcome = "calculate" THEN None
                    ELSE calculateUserNetValue(r.holdings, dnv, userId, ctx)
    IN  IF r.status # 200 THEN [status |-> r.status, dnv |-> dnv]
        ELSE IF ~shouldSave(netValue) THEN [status |-> 200, dnv |-> dnv]
        ELSE IF outcome = "save" THEN [status |-> 500, dnv |-> dnv]
        ELSE [status |-> 200, dnv |-> saveUserNetValue(dnv, netValue[1])]

\* the end of POST, PUT and DELETE: the snapshot step in its try / catch,
\* then the answer; [status, dnv]
tradeSnapshot(r, dnv, userId, ctx, outcome) ==
    LET netValue == IF outcome = "calculate" THEN None
                    ELSE calculateUserNetValue(r.holdings, dnv, userId, ctx)
    IN  IF r.status # 200 THEN [status |-> r.status, dnv |-> dnv]
        ELSE IF shouldSave(netValue) /\ outcome = "ok"
        THEN [status |-> 200, dnv |-> saveUserNetValue(dnv, netValue[1])]
        ELSE [status |-> 200, dnv |-> dnv]

\* a request of `userId` that came to `r` before its snapshot step
StepCommit(r, op, id, userId, outcome) ==
    LET end == tradeSnapshot(r, dailyNetValues, userId, env, outcome)
    IN  /\ hist.ops < MaxOps
        /\ transactions' = r.transactions
        /\ holdings' = r.holdings
        /\ dailyNetValues' = end.dnv
        /\ response' = Responded(op, end.status, id)
        /\ hist' = [ops |-> hist.ops + 1, undo |-> None,
                    step |-> Some([userId |-> userId, outcome |-> outcome, result |-> r,
                                   before |-> dailyNetValues])]
        /\ UNCHANGED <<env, inflight>>

StepCreate(userId, data, outcome) ==
    /\ nextId < MaxTx
    /\ nextId' = nextId + 1
    /\ StepCommit(POST(transactions, holdings, nextId + 1, userId, data), "POST",
                  nextId + 1, userId, outcome)

StepEdit(userId, id, body, outcome) ==
    /\ StepCommit(PUT(transactions, holdings, id, userId, body), "PUT", id, userId, outcome)
    /\ UNCHANGED nextId

StepDelete(userId, id, outcome) ==
    /\ StepCommit(DELETE(transactions, holdings, id, userId), "DELETE", id, userId, outcome)
    /\ UNCHANGED nextId

StepInit == LedgerInit /\ hist = [ops |-> 0, undo |-> None, step |-> None]

NextStep ==
    \/ \E u \in Users, data \in IsolationData, outcome \in Outcomes :
           StepCreate(u, data, outcome)
    \/ \E u \in Users, id \in 1..MaxTx, body \in IsolationBodies, outcome \in Outcomes :
           StepEdit(u, id, body, outcome)
    \/ \E u \in Users, id \in 1..MaxTx, outcome \in Outcomes : StepDelete(u, id, outcome)

SpecStep == StepInit /\ [][NextStep]_vars

\* C30: a create, edit or delete that has written the trade and the holding
\* answers 200 and leaves both as written whatever happens in its snapshot
\* step; when nothing goes wrong there and the total is > 0, the row of
\* (user, today) is in daily_net_values when the answer is given
C30_SnapshotFailureHarmless ==
    (hist.step # None /\ hist.step[1].result.status = 200) =>
        LET step == hist.step[1]
            netValue == calculateUserNetValue(holdings, step.before, step.userId, env)
        IN  /\ response.status = 200
            /\ transactions = step.result.transactions
            /\ holdings = step.result.holdings
            /\ (step.outcome = "ok" /\ ~Worthless(netValue)) =>
                   \E row \in dailyNetValues :
                       /\ row.userId = step.userId
                       /\ row.date = env.today
                       /\ row.totalValue = ToFixed2(netValue[1].totalValueTWD)

\* the write of the snapshot of a trade threw: 200, the holding is there and
\* today has no row
C30_Witness ==
    /\ hist.step # None
    /\ hist.step[1].outcome = "save"
    /\ hist.step[1].result.status = 200
    /\ response.status = 200
    /\ ~Worthless(calculateUserNetValue(holdings, dailyNetValues, hist.step[1].userId, env))
    /\ \A row \in dailyNetValues : row.date # env.today

====
